---- MODULE Spec2Model ----
(***************************************************************************)
(* SecureNT Facebook feed widget: the API module (fetchWithRetry,          *)
(* saveToCache, getFromCache, fetchFeed) and the FacebookFeedWidget class  *)
(* (constructor, setupLazyLoading, loadFeed, filterPosts, showError,       *)
(* render, goToPage, destroy), with localStorage as the shared cache.      *)
(*                                                                         *)
(* One action is one run of JavaScript between two awaits: a call of a     *)
(* public method up to its first await, or the continuation that runs when *)
(* the awaited fetch or timer settles, up to the next await.  The awaits   *)
(* of fetch() and of response.json() are taken as one settlement, since no *)
(* widget state changes between them.                                      *)
(***************************************************************************)
EXTENDS Integers, Sequences, FiniteSets, TLC

VARIABLES
    storage,        \* localStorage: the two cache keys
    now,            \* the clock read by new Date()
    cfg,            \* per widget: the fields the constructor derives from options
    posts,          \* per widget: this.posts
    currentPage,    \* per widget: this.currentPage
    isLoading,      \* per widget: this.isLoading
    fromCache,      \* per widget: this.fromCache
    cacheTimestamp, \* per widget: this.cacheTimestamp
    observing,      \* per widget: the IntersectionObserver still observes the element
    dom,            \* per widget: what this.element.innerHTML shows
    pc,             \* per widget: where the async loadFeed is suspended
    attempt,        \* per widget: the loop variable of fetchWithRetry
    inflight,       \* per widget: the number of loadFeed calls suspended at an await
    log,            \* history: the events of the loadFeed call in progress
    cacheWriter,    \* history: which save call wrote each of the two keys (1: the latest)
    lastOp,         \* history: the last step taken, what it observed and how it ended
    retries,        \* the retries argument of fetchWithRetry
    elements,       \* per container element: its data attributes, its widget property
                    \* and the widgets constructed on it
    microtasks      \* the continuations of fetchFeed and loadFeed that are ready to run,
                    \* in the order the microtask queue runs them

vars == << storage, now, cfg, posts, currentPage, isLoading, fromCache,
           cacheTimestamp, observing, dom, pc, attempt, inflight, log,
           cacheWriter, lastOp, retries, elements, microtasks >>

----------------------------------------------------------------------------
(* Bounds of the model *)

MaxPosts == 2       \* longest feed the endpoint returns
MaxTime == 1        \* the clock runs from 0 to MaxTime
MaxRetries == 3     \* largest retries argument given to fetchWithRetry
MaxFeed == 5        \* longest feed in the pagination and filter scenarios

(* Program constants *)

DefaultRetries == 2
DefaultItemsPerPage == 5
DayMs == 86400000

delays == << 1000, 2000 >>

\* The widget objects a page holds at most, and its container elements, in document order
Widgets == { "w1", "w2" }
WidgetSeq == << "w1", "w2" >>
ElementSeq == << "e1", "e2" >>
Elements == { ElementSeq[i] : i \in 1..Len(ElementSeq) }

----------------------------------------------------------------------------
(* Strings are sequences of one-character strings. *)

\* String.prototype.toLowerCase. The tables hold every character of the Basic Multilingual
\* Plane that a string of this module can hold (the plain ASCII characters and those whose
\* code ends in a byte of 80 or above). A lowercase form that a string cannot hold is
\* written as its code point, "U+0253": it is one character, equal to itself only.
\* The one character whose lowercase form is two characters long (U+0130) is not among
\* the characters a string can hold, so lowercasing keeps the length.

\* The characters with a lowercase form of their own, and those forms in the same order
Upper == << "A", "B", "C", "D", "E", "F", "G", "H", "I", "J", "K", "L", "M", "N", "O", "P",
    "Q", "R", "S", "T", "U", "V", "W", "X", "Y", "Z", "À", "Á", "Â", "Ã", "Ä", "Å", "Æ",
    "Ç", "È", "É", "Ê", "Ë", "Ì", "Í", "Î", "Ï", "Ð", "Ñ", "Ò", "Ó", "Ô", "Õ", "Ö", "Ø",
    "Ù", "Ú", "Û", "Ü", "Ý", "Þ", "Ɓ", "Ƃ", "Ƅ", "Ɔ", "Ƈ", "Ɖ", "Ɗ", "Ƌ", "Ǝ", "Ə", "Ɛ",
    "Ƒ", "Ɠ", "Ɣ", "Ɩ", "Ɨ", "Ƙ", "Ɯ", "Ɲ", "Ɵ", "Ơ", "Ƣ", "Ƥ", "Ʀ", "Ƨ", "Ʃ", "Ƭ", "Ʈ",
    "Ư", "Ʊ", "Ʋ", "Ƴ", "Ƶ", "Ʒ", "Ƹ", "Ƽ", "Ǆ", "ǅ", "Ǉ", "ǈ", "Ǌ", "ǋ", "Ǎ", "Ǐ", "Ǒ",
    "Ǔ", "Ǖ", "Ǘ", "Ǚ", "Ǜ", "Ǟ", "Ǡ", "Ǣ", "Ǥ", "Ǧ", "Ǩ", "Ǫ", "Ǭ", "Ǯ", "Ǳ", "ǲ", "Ǵ",
    "Ƕ", "Ƿ", "Ǹ", "Ǻ", "Ǽ", "Ǿ", "Ά", "Έ", "Ή", "Ί", "Ό", "Ύ", "Ώ", "Α", "Β", "Γ", "Δ",
    "Ε", "Ζ", "Η", "Θ", "Ι", "Κ", "Λ", "Μ", "Ν", "Ξ", "Ο", "Π", "Ρ", "Σ", "Τ", "Υ", "Φ",
    "Χ", "Ψ", "Ω", "Ϊ", "Ϋ", "Ϗ", "Ϙ", "Ϛ", "Ϝ", "Ϟ", "Ϡ", "Ϣ", "Ϥ", "Ϧ", "Ϩ", "Ϫ", "Ϭ",
    "Ϯ", "ϴ", "Ϸ", "Ϲ", "Ϻ", "Ͻ", "Ͼ", "Ͽ", "Ҁ", "Ҋ", "Ҍ", "Ҏ", "Ґ", "Ғ", "Ҕ", "Җ", "Ҙ",
    "Қ", "Ҝ", "Ҟ", "Ҡ", "Ң", "Ҥ", "Ҧ", "Ҩ", "Ҫ", "Ҭ", "Ү", "Ұ", "Ҳ", "Ҵ", "Ҷ", "Ҹ", "Һ",
    "Ҽ", "Ҿ", "Ӏ", "Ӂ", "Ӄ", "Ӆ", "Ӈ", "Ӊ", "Ӌ", "Ӎ", "Ӑ", "Ӓ", "Ӕ", "Ӗ", "Ә", "Ӛ", "Ӝ",
    "Ӟ", "Ӡ", "Ӣ", "Ӥ", "Ӧ", "Ө", "Ӫ", "Ӭ", "Ӯ", "Ӱ", "Ӳ", "Ӵ", "Ӷ", "Ӹ", "Ӻ", "Ӽ", "Ӿ",
    "Ⴀ", "Ⴁ", "Ⴂ", "Ⴃ", "Ⴄ", "Ⴅ", "Ⴆ", "Ⴇ", "Ⴈ", "Ⴉ", "Ⴊ", "Ⴋ", "Ⴌ", "Ⴍ", "Ⴎ", "Ⴏ", "Ⴐ",
    "Ⴑ", "Ⴒ", "Ⴓ", "Ⴔ", "Ⴕ", "Ⴖ", "Ⴗ", "Ⴘ", "Ⴙ", "Ⴚ", "Ⴛ", "Ⴜ", "Ⴝ", "Ⴞ", "Ⴟ", "Ⴠ", "Ⴡ",
    "Ⴢ", "Ⴣ", "Ⴤ", "Ⴥ", "Ⴧ", "Ⴭ", "Ꭰ", "Ꭱ", "Ꭲ", "Ꭳ", "Ꭴ", "Ꭵ", "Ꭶ", "Ꭷ", "Ꭸ", "Ꭹ", "Ꭺ",
    "Ꭻ", "Ꭼ", "Ꭽ", "Ꭾ", "Ꭿ", "Ꮀ", "Ꮁ", "Ꮂ", "Ꮃ", "Ꮄ", "Ꮅ", "Ꮆ", "Ꮇ", "Ꮈ", "Ꮉ", "Ꮊ", "Ꮋ",
    "Ꮌ", "Ꮍ", "Ꮎ", "Ꮏ", "Ꮐ", "Ꮑ", "Ꮒ", "Ꮓ", "Ꮔ", "Ꮕ", "Ꮖ", "Ꮗ", "Ꮘ", "Ꮙ", "Ꮚ", "Ꮛ", "Ꮜ",
    "Ꮝ", "Ꮞ", "Ꮟ", "Ꮠ", "Ꮡ", "Ꮢ", "Ꮣ", "Ꮤ", "Ꮥ", "Ꮦ", "Ꮧ", "Ꮨ", "Ꮩ", "Ꮪ", "Ꮫ", "Ꮬ", "Ꮭ",
    "Ꮮ", "Ꮯ", "Ꮰ", "Ꮱ", "Ꮲ", "Ꮳ", "Ꮴ", "Ꮵ", "Ꮶ", "Ꮷ", "Ꮸ", "Ꮹ", "Ꮺ", "Ꮻ", "Ꮼ", "Ꮽ", "Ꮾ",
    "Ꮿ", "Ᏸ", "Ᏹ", "Ᏺ", "Ᏻ", "Ᏼ", "Ᏽ", "Ᲊ", "Ა", "Ბ", "Გ", "Დ", "Ე", "Ვ", "Ზ", "Თ", "Ი",
    "Კ", "Ლ", "Მ", "Ნ", "Ო", "Პ", "Ჟ", "Რ", "Ს", "Ტ", "Უ", "Ფ", "Ქ", "Ღ", "Ყ", "Შ", "Ჩ",
    "Ც", "Ძ", "Წ", "Ჭ", "Ხ", "Ჯ", "Ჰ", "Ჱ", "Ჲ", "Ჳ", "Ჴ", "Ჵ", "Ჶ", "Ჷ", "Ჸ", "Ჹ", "Ჺ",
    "Ჽ", "Ჾ", "Ჿ", "Ẁ", "Ẃ", "Ẅ", "Ẇ", "Ẉ", "Ẋ", "Ẍ", "Ẏ", "Ẑ", "Ẓ", "Ẕ", "ẞ", "Ạ", "Ả",
    "Ấ", "Ầ", "Ẩ", "Ẫ", "Ậ", "Ắ", "Ằ", "Ẳ", "Ẵ", "Ặ", "Ẹ", "Ẻ", "Ẽ", "Ế", "Ề", "Ể", "Ễ",
    "Ệ", "Ỉ", "Ị", "Ọ", "Ỏ", "Ố", "Ồ", "Ổ", "Ỗ", "Ộ", "Ớ", "Ờ", "Ở", "Ỡ", "Ợ", "Ụ", "Ủ",
    "Ứ", "Ừ", "Ử", "Ữ", "Ự", "Ỳ", "Ỵ", "Ỷ", "Ỹ", "Ỻ", "Ỽ", "Ỿ", "ᾈ", "ᾉ", "ᾊ", "ᾋ", "ᾌ",
    "ᾍ", "ᾎ", "ᾏ", "ᾘ", "ᾙ", "ᾚ", "ᾛ", "ᾜ", "ᾝ", "ᾞ", "ᾟ", "ᾨ", "ᾩ", "ᾪ", "ᾫ", "ᾬ", "ᾭ",
    "ᾮ", "ᾯ", "Ᾰ", "Ᾱ", "Ὰ", "Ά", "ᾼ", "Ὲ", "Έ", "Ὴ", "Ή", "ῌ", "Ῐ", "Ῑ", "Ὶ", "Ί", "Ῠ",
    "Ῡ", "Ὺ", "Ύ", "Ῥ", "Ὸ", "Ό", "Ὼ", "Ώ", "ῼ", "Ↄ", "Ⓐ", "Ⓑ", "Ⓒ", "Ⓓ", "Ⓔ", "Ⓕ", "Ⓖ",
    "Ⓗ", "Ⓘ", "Ⓙ", "Ⓚ", "Ⓛ", "Ⓜ", "Ⓝ", "Ⓞ", "Ⓟ", "Ⓠ", "Ⓡ", "Ⓢ", "Ⓣ", "Ⓤ", "Ⓥ", "Ⓦ", "Ⓧ",
    "Ⓨ", "Ⓩ", "Ⲁ", "Ⲃ", "Ⲅ", "Ⲇ", "Ⲉ", "Ⲋ", "Ⲍ", "Ⲏ", "Ⲑ", "Ⲓ", "Ⲕ", "Ⲗ", "Ⲙ", "Ⲛ", "Ⲝ",
    "Ⲟ", "Ⲡ", "Ⲣ", "Ⲥ", "Ⲧ", "Ⲩ", "Ⲫ", "Ⲭ", "Ⲯ", "Ⲱ", "Ⲳ", "Ⲵ", "Ⲷ", "Ⲹ", "Ⲻ", "Ⲽ", "Ⲿ",
    "Ⳁ", "Ⳃ", "Ⳅ", "Ⳇ", "Ⳉ", "Ⳋ", "Ⳍ", "Ⳏ", "Ⳑ", "Ⳓ", "Ⳕ", "Ⳗ", "Ⳙ", "Ⳛ", "Ⳝ", "Ⳟ", "Ⳡ",
    "Ⳣ", "Ⳬ", "Ⳮ", "Ⳳ", "Ꚁ", "Ꚃ", "Ꚅ", "Ꚇ", "Ꚉ", "Ꚋ", "Ꚍ", "Ꚏ", "Ꚑ", "Ꚓ", "Ꚕ", "Ꚗ", "Ꚙ",
    "Ꚛ", "Ꞁ", "Ꞃ", "Ꞅ", "Ꞇ", "Ꞌ", "Ɥ", "Ꞑ", "Ꞓ", "Ꞗ", "Ꞙ", "Ꞛ", "Ꞝ", "Ꞟ", "Ꞡ", "Ꞣ", "Ꞥ",
    "Ꞧ", "Ꞩ", "Ɦ", "Ɜ", "Ɡ", "Ɬ", "Ɪ", "Ʞ", "Ʇ", "Ʝ", "Ꭓ", "Ꞵ", "Ꞷ", "Ꞹ", "Ꞻ", "Ꞽ", "Ꞿ",
    "Ꟁ", "Ꟃ", "Ꞔ", "Ʂ", "Ᶎ", "Ꟈ", "Ꟊ", "Ɤ", "Ꟍ", "꟎", "Ꟑ", "꟒", "꟔", "Ꟗ", "Ꟙ", "Ꟛ", "Ƛ", "Ꟶ" >>

Lower == << "a", "b", "c", "d", "e", "f", "g", "h", "i", "j", "k", "l", "m", "n", "o", "p",
    "q", "r", "s", "t", "u", "v", "w", "x", "y", "z", "à", "á", "â", "ã", "ä", "å", "æ",
    "ç", "è", "é", "ê", "ë", "ì", "í", "î", "ï", "ð", "ñ", "ò", "ó", "ô", "õ", "ö", "ø",
    "ù", "ú", "û", "ü", "ý", "þ", "U+0253", "ƃ", "ƅ", "U+0254", "ƈ", "U+0256", "U+0257",
    "ƌ", "ǝ", "U+0259", "U+025B", "ƒ", "U+0260", "U+0263", "U+0269", "U+0268", "ƙ",
    "U+026F", "U+0272", "U+0275", "ơ", "ƣ", "ƥ", "ʀ", "ƨ", "ʃ", "ƭ", "ʈ", "ư", "ʊ", "ʋ",
    "ƴ", "ƶ", "ʒ", "ƹ", "ƽ", "ǆ", "ǆ", "ǉ", "ǉ", "ǌ", "ǌ", "ǎ", "ǐ", "ǒ", "ǔ", "ǖ", "ǘ",
    "ǚ", "ǜ", "ǟ", "ǡ", "ǣ", "ǥ", "ǧ", "ǩ", "ǫ", "ǭ", "ǯ", "ǳ", "ǳ", "ǵ", "ƕ", "ƿ", "ǹ",
    "ǻ", "ǽ", "ǿ", "ά", "έ", "ή", "ί", "ό", "ύ", "ώ", "α", "β", "γ", "δ", "ε", "ζ", "η",
    "θ", "ι", "κ", "λ", "μ", "ν", "ξ", "ο", "π", "ρ", "σ", "τ", "υ", "φ", "χ", "ψ", "ω",
    "ϊ", "ϋ", "ϗ", "ϙ", "ϛ", "ϝ", "ϟ", "ϡ", "ϣ", "ϥ", "ϧ", "ϩ", "ϫ", "ϭ", "ϯ", "θ", "ϸ",
    "ϲ", "ϻ", "U+037B", "U+037C", "U+037D", "ҁ", "ҋ", "ҍ", "ҏ", "ґ", "ғ", "ҕ", "җ", "ҙ",
    "қ", "ҝ", "ҟ", "ҡ", "ң", "ҥ", "ҧ", "ҩ", "ҫ", "ҭ", "ү", "ұ", "ҳ", "ҵ", "ҷ", "ҹ", "һ",
    "ҽ", "ҿ", "ӏ", "ӂ", "ӄ", "ӆ", "ӈ", "ӊ", "ӌ", "ӎ", "ӑ", "ӓ", "ӕ", "ӗ", "ә", "ӛ", "ӝ",
    "ӟ", "ӡ", "ӣ", "ӥ", "ӧ", "ө", "ӫ", "ӭ", "ӯ", "ӱ", "ӳ", "ӵ", "ӷ", "ӹ", "ӻ", "ӽ", "ӿ",
    "U+2D00", "U+2D01", "U+2D02", "U+2D03", "U+2D04", "U+2D05", "U+2D06", "U+2D07",
    "U+2D08", "U+2D09", "U+2D0A", "U+2D0B", "U+2D0C", "U+2D0D", "U+2D0E", "U+2D0F",
    "U+2D10", "U+2D11", "U+2D12", "U+2D13", "U+2D14", "U+2D15", "U+2D16", "U+2D17",
    "U+2D18", "U+2D19", "U+2D1A", "U+2D1B", "U+2D1C", "U+2D1D", "U+2D1E", "U+2D1F",
    "U+2D20", "U+2D21", "U+2D22", "U+2D23", "U+2D24", "U+2D25", "U+2D27", "U+2D2D",
    "U+AB70", "U+AB71", "U+AB72", "U+AB73", "U+AB74", "U+AB75", "U+AB76", "U+AB77",
    "U+AB78", "U+AB79", "U+AB7A", "U+AB7B", "U+AB7C", "U+AB7D", "U+AB7E", "U+AB7F", "ꮀ",
    "ꮁ", "ꮂ", "ꮃ", "ꮄ", "ꮅ", "ꮆ", "ꮇ", "ꮈ", "ꮉ", "ꮊ", "ꮋ", "ꮌ", "ꮍ", "ꮎ", "ꮏ", "ꮐ", "ꮑ",
    "ꮒ", "ꮓ", "ꮔ", "ꮕ", "ꮖ", "ꮗ", "ꮘ", "ꮙ", "ꮚ", "ꮛ", "ꮜ", "ꮝ", "ꮞ", "ꮟ", "ꮠ", "ꮡ", "ꮢ",
    "ꮣ", "ꮤ", "ꮥ", "ꮦ", "ꮧ", "ꮨ", "ꮩ", "ꮪ", "ꮫ", "ꮬ", "ꮭ", "ꮮ", "ꮯ", "ꮰ", "ꮱ", "ꮲ", "ꮳ",
    "ꮴ", "ꮵ", "ꮶ", "ꮷ", "ꮸ", "ꮹ", "ꮺ", "ꮻ", "ꮼ", "ꮽ", "ꮾ", "ꮿ", "ᏸ", "ᏹ", "ᏺ", "ᏻ", "ᏼ",
    "ᏽ", "ᲊ", "ა", "ბ", "გ", "დ", "ე", "ვ", "ზ", "თ", "ი", "კ", "ლ", "მ", "ნ", "ო", "პ",
    "ჟ", "რ", "ს", "ტ", "უ", "ფ", "ქ", "ღ", "ყ", "შ", "ჩ", "ც", "ძ", "წ", "ჭ", "ხ", "ჯ",
    "ჰ", "ჱ", "ჲ", "ჳ", "ჴ", "ჵ", "ჶ", "ჷ", "ჸ", "ჹ", "ჺ", "ჽ", "ჾ", "ჿ", "ẁ", "ẃ", "ẅ",
    "ẇ", "ẉ", "ẋ", "ẍ", "ẏ", "ẑ", "ẓ", "ẕ", "ß", "ạ", "ả", "ấ", "ầ", "ẩ", "ẫ", "ậ", "ắ",
    "ằ", "ẳ", "ẵ", "ặ", "ẹ", "ẻ", "ẽ", "ế", "ề", "ể", "ễ", "ệ", "ỉ", "ị", "ọ", "ỏ", "ố",
    "ồ", "ổ", "ỗ", "ộ", "ớ", "ờ", "ở", "ỡ", "ợ", "ụ", "ủ", "ứ", "ừ", "ử", "ữ", "ự", "ỳ",
    "ỵ", "ỷ", "ỹ", "ỻ", "ỽ", "ỿ", "ᾀ", "ᾁ", "ᾂ", "ᾃ", "ᾄ", "ᾅ", "ᾆ", "ᾇ", "ᾐ", "ᾑ", "ᾒ",
    "ᾓ", "ᾔ", "ᾕ", "ᾖ", "ᾗ", "ᾠ", "ᾡ", "ᾢ", "ᾣ", "ᾤ", "ᾥ", "ᾦ", "ᾧ", "ᾰ", "ᾱ", "U+1F70",
    "U+1F71", "ᾳ", "U+1F72", "U+1F73", "U+1F74", "U+1F75", "ῃ", "ῐ", "ῑ", "U+1F76",
    "U+1F77", "ῠ", "ῡ", "U+1F7A", "U+1F7B", "ῥ", "U+1F78", "U+1F79", "U+1F7C", "U+1F7D",
    "ῳ", "ↄ", "ⓐ", "ⓑ", "ⓒ", "ⓓ", "ⓔ", "ⓕ", "ⓖ", "ⓗ", "ⓘ", "ⓙ", "ⓚ", "ⓛ", "ⓜ", "ⓝ", "ⓞ",
    "ⓟ", "ⓠ", "ⓡ", "ⓢ", "ⓣ", "ⓤ", "ⓥ", "ⓦ", "ⓧ", "ⓨ", "ⓩ", "ⲁ", "ⲃ", "ⲅ", "ⲇ", "ⲉ", "ⲋ",
    "ⲍ", "ⲏ", "ⲑ", "ⲓ", "ⲕ", "ⲗ", "ⲙ", "ⲛ", "ⲝ", "ⲟ", "ⲡ", "ⲣ", "ⲥ", "ⲧ", "ⲩ", "ⲫ", "ⲭ",
    "ⲯ", "ⲱ", "ⲳ", "ⲵ", "ⲷ", "ⲹ", "ⲻ", "ⲽ", "ⲿ", "ⳁ", "ⳃ", "ⳅ", "ⳇ", "ⳉ", "ⳋ", "ⳍ", "ⳏ",
    "ⳑ", "ⳓ", "ⳕ", "ⳗ", "ⳙ", "ⳛ", "ⳝ", "ⳟ", "ⳡ", "ⳣ", "ⳬ", "ⳮ", "ⳳ", "ꚁ", "ꚃ", "ꚅ", "ꚇ",
    "ꚉ", "ꚋ", "ꚍ", "ꚏ", "ꚑ", "ꚓ", "ꚕ", "ꚗ", "ꚙ", "ꚛ", "ꞁ", "ꞃ", "ꞅ", "ꞇ", "ꞌ", "U+0265",
    "ꞑ", "ꞓ", "ꞗ", "ꞙ", "ꞛ", "ꞝ", "ꞟ", "ꞡ", "ꞣ", "ꞥ", "ꞧ", "ꞩ", "U+0266", "U+025C",
    "U+0261", "U+026C", "U+026A", "ʞ", "ʇ", "ʝ", "U+AB53", "ꞵ", "ꞷ", "ꞹ", "ꞻ", "ꞽ", "ꞿ",
    "ꟁ", "ꟃ", "ꞔ", "ʂ", "ᶎ", "ꟈ", "ꟊ", "U+0264", "ꟍ", "꟏", "ꟑ", "ꟓ", "ꟕ", "ꟗ", "ꟙ", "ꟛ",
    "ƛ", "ꟶ" >>

LowerOf == [ c \in { Upper[i] : i \in 1..Len(Upper) } |->
               Lower[CHOOSE i \in 1..Len(Upper) : Upper[i] = c] ]

LowerChar(c) == IF c \in DOMAIN LowerOf THEN LowerOf[c] ELSE c

\* The cased characters without a lowercase form of their own and not the lowercase form
\* of another (small letters without a capital, modifier and enclosed letters)
OtherCased == { "ª", "µ", "º", "ÿ", "ƀ", "ƍ", "ƚ", "ƞ", "ƪ", "ƫ", "ƺ", "ƾ", "ǰ", "ʁ", "ʄ",
    "ʅ", "ʆ", "ʉ", "ʌ", "ʍ", "ʎ", "ʏ", "ʐ", "ʑ", "ʓ", "ʖ", "ʗ", "ʘ", "ʙ", "ʚ", "ʛ", "ʜ",
    "ʟ", "ʠ", "ʡ", "ʢ", "ʣ", "ʤ", "ʥ", "ʦ", "ʧ", "ʨ", "ʩ", "ʪ", "ʫ", "ʬ", "ʭ", "ʮ", "ʯ",
    "ʰ", "ʱ", "ʲ", "ʳ", "ʴ", "ʵ", "ʶ", "ʷ", "ʸ", "ˀ", "ˁ", "ˠ", "ˡ", "ˢ", "ˣ", "ˤ", "ΐ",
    "ΰ", "ς", "ϐ", "ϑ", "ϒ", "ϓ", "ϔ", "ϕ", "ϖ", "ϰ", "ϱ", "ϳ", "ϵ", "ϼ", "ր", "ց", "ւ",
    "փ", "ք", "օ", "ֆ", "և", "ֈ", "ᲀ", "ᲁ", "ᲂ", "ᲃ", "ᲄ", "ᲅ", "ᲆ", "ᲇ", "ᲈ", "ᶀ", "ᶁ",
    "ᶂ", "ᶃ", "ᶄ", "ᶅ", "ᶆ", "ᶇ", "ᶈ", "ᶉ", "ᶊ", "ᶋ", "ᶌ", "ᶍ", "ᶏ", "ᶐ", "ᶑ", "ᶒ", "ᶓ",
    "ᶔ", "ᶕ", "ᶖ", "ᶗ", "ᶘ", "ᶙ", "ᶚ", "ᶛ", "ᶜ", "ᶝ", "ᶞ", "ᶟ", "ᶠ", "ᶡ", "ᶢ", "ᶣ", "ᶤ",
    "ᶥ", "ᶦ", "ᶧ", "ᶨ", "ᶩ", "ᶪ", "ᶫ", "ᶬ", "ᶭ", "ᶮ", "ᶯ", "ᶰ", "ᶱ", "ᶲ", "ᶳ", "ᶴ", "ᶵ",
    "ᶶ", "ᶷ", "ᶸ", "ᶹ", "ᶺ", "ᶻ", "ᶼ", "ᶽ", "ᶾ", "ᶿ", "ẖ", "ẗ", "ẘ", "ẙ", "ẚ", "ẛ", "ẜ",
    "ẝ", "ẟ", "ᾲ", "ᾴ", "ᾶ", "ᾷ", "ι", "ῂ", "ῄ", "ῆ", "ῇ", "ῒ", "ΐ", "ῖ", "ῗ", "ῢ", "ΰ",
    "ῤ", "ῦ", "ῧ", "ῲ", "ῴ", "ῶ", "ῷ", "ₐ", "ₑ", "ₒ", "ₓ", "ₔ", "ₕ", "ₖ", "ₗ", "ₘ", "ₙ",
    "ₚ", "ₛ", "ₜ", "ⳤ", "ꚜ", "ꚝ", "ꞎ", "ꞕ", "ꞯ", "ꟸ", "ꟹ", "ꟺ" }

\* The characters with the property Cased
Cased == DOMAIN LowerOf \cup { Lower[i] : i \in 1..Len(Lower) } \cup OtherCased

\* The characters with the property Case_Ignorable
CaseIgnorable == { "'", ".", ":", "^", "¨", "­", "¯", "´", "·", "¸", "ʰ", "ʱ", "ʲ", "ʳ",
    "ʴ", "ʵ", "ʶ", "ʷ", "ʸ", "ʹ", "ʺ", "ʻ", "ʼ", "ʽ", "ʾ", "ʿ", "ˀ", "ˁ", "˂", "˃", "˄",
    "˅", "ˆ", "ˇ", "ˈ", "ˉ", "ˊ", "ˋ", "ˌ", "ˍ", "ˎ", "ˏ", "ː", "ˑ", "˒", "˓", "˔", "˕",
    "˖", "˗", "˘", "˙", "˚", "˛", "˜", "˝", "˞", "˟", "ˠ", "ˡ", "ˢ", "ˣ", "ˤ", "˥", "˦",
    "˧", "˨", "˩", "˪", "˫", "ˬ", "˭", "ˮ", "˯", "˰", "˱", "˲", "˳", "˴", "˵", "˶", "˷",
    "˸", "˹", "˺", "˻", "˼", "˽", "˾", "˿", "΄", "΅", "·", "҃", "҄", "҅", "҆", "҇", "҈",
    "҉", "֑", "֒", "֓", "֔", "֕", "֖", "֗", "֘", "֙", "֚", "֛", "֜", "֝", "֞", "֟", "֠",
    "֡", "֢", "֣", "֤", "֥", "֦", "֧", "֨", "֩", "֪", "֫", "֬", "֭", "֮", "֯", "ְ", "ֱ",
    "ֲ", "ֳ", "ִ", "ֵ", "ֶ", "ַ", "ָ", "ֹ", "ֺ", "ֻ", "ּ", "ֽ", "ֿ", "ׁ", "ׂ", "ׄ", "ׅ",
    "ׇ", "״", "ۖ", "ۗ", "ۘ", "ۙ", "ۚ", "ۛ", "ۜ", "۝", "۟", "۠", "ۡ", "ۢ", "ۣ", "ۤ", "ۥ",
    "ۦ", "ۧ", "ۨ", "۪", "۫", "۬", "ۭ", "ަ", "ާ", "ި", "ީ", "ު", "ޫ", "ެ", "ޭ", "ޮ", "ޯ",
    "ް", "߫", "߬", "߭", "߮", "߯", "߰", "߱", "߲", "߳", "ߴ", "ߵ", "ߺ", "߽", "࢈", "࢐", "࢑",
    "ࢗ", "࢘", "࢙", "࢚", "࢛", "࢜", "࢝", "࢞", "࢟", "ࣉ", "࣊", "࣋", "࣌", "࣍", "࣎", "࣏", "࣐",
    "࣑", "࣒", "࣓", "ࣔ", "ࣕ", "ࣖ", "ࣗ", "ࣘ", "ࣙ", "ࣚ", "ࣛ", "ࣜ", "ࣝ", "ࣞ", "ࣟ", "࣠", "࣡",
    "࣢", "ࣣ", "ࣤ", "ࣥ", "ࣦ", "ࣧ", "ࣨ", "ࣩ", "࣪", "࣫", "࣬", "࣭", "࣮", "࣯", "ࣰ", "ࣱ", "ࣲ",
    "ࣳ", "ࣴ", "ࣵ", "ࣶ", "ࣷ", "ࣸ", "ࣹ", "ࣺ", "ࣻ", "ࣼ", "ࣽ", "ࣾ", "ࣿ", "ঁ", "়", "ু", "ূ",
    "ৃ", "ৄ", "্", "ৢ", "ৣ", "৾", "ઁ", "ં", "઼", "ુ", "ૂ", "ૃ", "ૄ", "ૅ", "ે", "ૈ", "્",
    "ૢ", "ૣ", "ૺ", "ૻ", "ૼ", "૽", "૾", "૿", "ஂ", "ீ", "்", "ಁ", "಼", "ಿ", "ೆ", "ೌ", "್",
    "ೢ", "ೣ", "ඁ", "්", "ි", "ී", "ු", "ූ", "ັ", "ິ", "ີ", "ຶ", "ື", "ຸ", "ູ", "຺", "ົ",
    "ຼ", "ໆ", "່", "້", "໊", "໋", "໌", "ໍ", "໎", "ྀ", "ཱྀ", "ྂ", "ྃ", "྄", "྆", "྇", "ྍ",
    "ྎ", "ྏ", "ྐ", "ྑ", "ྒ", "ྒྷ", "ྔ", "ྕ", "ྖ", "ྗ", "ྙ", "ྚ", "ྛ", "ྜ", "ྜྷ", "ྞ", "ྟ",
    "ྠ", "ྡ", "ྡྷ", "ྣ", "ྤ", "ྥ", "ྦ", "ྦྷ", "ྨ", "ྩ", "ྪ", "ྫ", "ྫྷ", "ྭ", "ྮ", "ྯ", "ྰ",
    "ྱ", "ྲ", "ླ", "ྴ", "ྵ", "ྶ", "ྷ", "ྸ", "ྐྵ", "ྺ", "ྻ", "ྼ", "࿆", "ႂ", "ႅ", "ႆ", "ႍ",
    "ႝ", "ჼ", "឴", "឵", "ិ", "ី", "ឹ", "ឺ", "ុ", "ូ", "ួ", "ំ", "៉", "៊", "់", "៌", "៍",
    "៎", "៏", "័", "៑", "្", "៓", "ៗ", "៝", "ᢅ", "ᢆ", "ᢩ", "ᪧ", "᪰", "᪱", "᪲", "᪳", "᪴",
    "᪵", "᪶", "᪷", "᪸", "᪹", "᪺", "᪻", "᪼", "᪽", "᪾", "ᪿ", "ᫀ", "᫁", "᫂", "᫃", "᫄", "᫅",
    "᫆", "᫇", "᫈", "᫉", "᫊", "᫋", "ᫌ", "ᫍ", "ᫎ", "᫏", "᫐", "᫑", "᫒", "᫓", "᫔", "᫕", "᫖",
    "᫗", "᫘", "᫙", "᫚", "᫛", "᫜", "᫝", "᫠", "᫡", "᫢", "᫣", "᫤", "᫥", "᫦", "᫧", "᫨", "᫩",
    "᫪", "᫫", "ᮀ", "ᮁ", "ᮢ", "ᮣ", "ᮤ", "ᮥ", "ᮨ", "ᮩ", "᮫", "ᮬ", "ᮭ", "᯦", "ᯨ", "ᯩ", "ᯭ",
    "ᯯ", "ᯰ", "ᯱ", "᳐", "᳑", "᳒", "᳔", "᳕", "᳖", "᳗", "᳘", "᳙", "᳚", "᳛", "᳜", "᳝", "᳞",
    "᳟", "᳠", "᳢", "᳣", "᳤", "᳥", "᳦", "᳧", "᳨", "᳭", "᳴", "᳸", "᳹", "ᶛ", "ᶜ", "ᶝ", "ᶞ",
    "ᶟ", "ᶠ", "ᶡ", "ᶢ", "ᶣ", "ᶤ", "ᶥ", "ᶦ", "ᶧ", "ᶨ", "ᶩ", "ᶪ", "ᶫ", "ᶬ", "ᶭ", "ᶮ", "ᶯ",
    "ᶰ", "ᶱ", "ᶲ", "ᶳ", "ᶴ", "ᶵ", "ᶶ", "ᶷ", "ᶸ", "ᶹ", "ᶺ", "ᶻ", "ᶼ", "ᶽ", "ᶾ", "ᶿ", "᷀",
    "᷁", "᷂", "᷃", "᷄", "᷅", "᷆", "᷇", "᷈", "᷉", "᷊", "᷋", "᷌", "᷍", "᷎", "᷏", "᷐", "᷑",
    "᷒", "ᷓ", "ᷔ", "ᷕ", "ᷖ", "ᷗ", "ᷘ", "ᷙ", "ᷚ", "ᷛ", "ᷜ", "ᷝ", "ᷞ", "ᷟ", "ᷠ", "ᷡ", "ᷢ",
    "ᷣ", "ᷤ", "ᷥ", "ᷦ", "ᷧ", "ᷨ", "ᷩ", "ᷪ", "ᷫ", "ᷬ", "ᷭ", "ᷮ", "ᷯ", "ᷰ", "ᷱ", "ᷲ", "ᷳ",
    "ᷴ", "᷵", "᷶", "᷷", "᷸", "᷹", "᷺", "᷻", "᷼", "᷽", "᷾", "᷿", "᾽", "᾿", "῀", "῁", "῍",
    "῎", "῏", "῝", "῞", "῟", "῭", "΅", "`", "´", "῾", "ₐ", "ₑ", "ₒ", "ₓ", "ₔ", "ₕ", "ₖ",
    "ₗ", "ₘ", "ₙ", "ₚ", "ₛ", "ₜ", "⃐", "⃑", "⃒", "⃓", "⃔", "⃕", "⃖", "⃗", "⃘", "⃙", "⃚",
    "⃛", "⃜", "⃝", "⃞", "⃟", "⃠", "⃡", "⃢", "⃣", "⃤", "⃥", "⃦", "⃧", "⃨", "⃩", "⃪", "⃫",
    "⃬", "⃭", "⃮", "⃯", "⃰", "⳯", "⳰", "⳱", "ⷠ", "ⷡ", "ⷢ", "ⷣ", "ⷤ", "ⷥ", "ⷦ", "ⷧ", "ⷨ",
    "ⷩ", "ⷪ", "ⷫ", "ⷬ", "ⷭ", "ⷮ", "ⷯ", "ⷰ", "ⷱ", "ⷲ", "ⷳ", "ⷴ", "ⷵ", "ⷶ", "ⷷ", "ⷸ", "ⷹ",
    "ⷺ", "ⷻ", "ⷼ", "ⷽ", "ⷾ", "ⷿ", "゙", "゚", "゛", "゜", "ゝ", "ゞ", "ー", "ヽ", "ヾ", "ꓸ", "ꓹ",
    "ꓺ", "ꓻ", "ꓼ", "ꓽ", "ꚜ", "ꚝ", "ꚞ", "ꚟ", "꛰", "꛱", "ꞈ", "꞉", "꞊", "꟱", "ꟲ", "ꟳ", "ꟴ",
    "ꟸ", "ꟹ", "꣄", "ꣅ", "꣠", "꣡", "꣢", "꣣", "꣤", "꣥", "꣦", "꣧", "꣨", "꣩", "꣪", "꣫", "꣬",
    "꣭", "꣮", "꣯", "꣰", "꣱", "ꣿ", "ꦀ", "ꦁ", "ꦂ", "꦳", "ꦶ", "ꦷ", "ꦸ", "ꦹ", "ꦼ", "ꦽ", "ꧏ",
    "ꧥ", "ꧦ", "ꪰ", "ꪲ", "ꪳ", "ꪴ", "ꪷ", "ꪸ", "ꪾ", "꪿", "꫁", "ꫝ", "ꫬ", "ꫭ", "ꫳ", "ꫴ", "꫶",
    "ꯥ", "ꯨ", "꯭", "﮲", "﮳", "﮴", "﮵", "﮶", "﮷", "﮸", "﮹", "﮺", "﮻", "﮼", "﮽", "﮾", "﮿",
    "﯀", "﯁", "﯂", "﻿", "ﾞ", "ﾟ", "￣", "￹", "￺", "￻" }

\* The capital sigma at position i of s is in final position: going back over the
\* case-ignorable characters before it the first other character is cased, and going on
\* over those after it the first other character, if any, is not
FinalSigma(s, i) ==
    /\ \E j \in 1..(i - 1) :
           /\ s[j] \in Cased \ CaseIgnorable
           /\ \A k \in (j + 1)..(i - 1) : s[k] \in CaseIgnorable
    /\ ~\E j \in (i + 1)..Len(s) :
           /\ s[j] \in Cased \ CaseIgnorable
           /\ \A k \in (i + 1)..(j - 1) : s[k] \in CaseIgnorable

ToLowerCase(s) ==
    [ i \in 1..Len(s) |->
        IF s[i] = "Σ" /\ FinalSigma(s, i) THEN "ς" ELSE LowerChar(s[i]) ]

\* String.prototype.includes
Includes(s, k) ==
    \E i \in 0..(Len(s) - Len(k)) :
        \A j \in 1..Len(k) : s[i + j] = k[j]

\* The white space and line terminator characters String.prototype.trim removes, as far
\* as a string of this module can hold them: space, tab, line feed, carriage return, form
\* feed, vertical tab, U+00A0 (no-break space), U+1680 and U+FEFF
WhiteSpace == { " ", "\t", "\n", "\r", "\f", "", " ", " ", "﻿" }

IsSpace(c) == c \in WhiteSpace

RECURSIVE TrimStart(_)
TrimStart(s) ==
    IF s # << >> /\ IsSpace(Head(s)) THEN TrimStart(Tail(s)) ELSE s

RECURSIVE TrimEnd(_)
TrimEnd(s) ==
    IF s # << >> /\ IsSpace(s[Len(s)])
    THEN TrimEnd(SubSeq(s, 1, Len(s) - 1))
    ELSE s

\* String.prototype.trim
Trim(s) == TrimEnd(TrimStart(s))

\* String.prototype.split(";"): the pieces between separators, empty ones kept
RECURSIVE SplitFrom(_, _, _)
SplitFrom(s, i, cur) ==
    IF i > Len(s) THEN << cur >>
    ELSE IF s[i] = ";" THEN << cur >> \o SplitFrom(s, i + 1, << >>)
    ELSE SplitFrom(s, i + 1, Append(cur, s[i]))

Split(s) == SplitFrom(s, 1, << >>)

----------------------------------------------------------------------------
(* Posts and response bodies *)

\* A Date object: a valid instant, Invalid Date, or null where the code has none
DateOf(t) == [ k |-> "date", ms |-> t ]
InvalidDate == [ k |-> "invalid", ms |-> 0 ]
NullDate == [ k |-> "null", ms |-> 0 ]

\* An ISO-8601 string of instant t, and a string no Date can be parsed from
Iso(t) == [ t |-> "iso", v |-> t ]
NotADate == [ t |-> "garbage", v |-> 0 ]

\* new Date(string)
NewDate(str) == IF str.t = "iso" THEN DateOf(str.v) ELSE InvalidDate

\* The message property of a post that has none
Undefined == << "undefined" >>

Messages == << << "F", "i", "r", "e", " ", "b", "a", "n" >>,
               << "C", "Y", "C", "L", "O", "N", "E" >>,
               << "c", "a", "l", "m" >>,
               << >>,
               Undefined >>

CreatedTimes == << Iso(DayMs), Iso(3 * DayMs), NotADate, Iso(2 * DayMs + 5) >>

\* The i-th post of the feed the endpoint serves
Post(i) == [ id |-> i,
             message |-> Messages[((i - 1) % Len(Messages)) + 1],
             created_time |-> CreatedTimes[((i - 1) % Len(CreatedTimes)) + 1] ]

Feed(n) == [ i \in 1..n |-> Post(i) ]

\* A feed whose messages hold letters outside ASCII: a capital sigma at the end of a word,
\* inside a word and after a tonos, and capitals of the Latin and Cyrillic ranges
InternationalMessages == << << "Ο", "Δ", "Ο", "Σ" >>,
                            << "É", "Σ", "É" >>,
                            << "Ο", "Σ", "Α" >>,
                            << "Α", "΄", "Σ" >>,
                            << "Ɓ", "Ґ" >> >>

InternationalFeed ==
    [ i \in 1..Len(InternationalMessages) |->
        [ id |-> i, message |-> InternationalMessages[i], created_time |-> Iso(DayMs) ] ]

\* A parsed JSON body: a bare array of posts, or an object with a data array
ArrayBody(items) == [ shape |-> "array", items |-> items ]
ObjectBody(items) == [ shape |-> "object", items |-> items ]
NoBody == [ shape |-> "none", items |-> << >> ]

Bodies == { ArrayBody(Feed(n)) : n \in 0..MaxPosts } \cup { ObjectBody(Feed(MaxPosts)) }

\* What one HTTP attempt can settle to
Responses ==
    { [ kind |-> "ok", status |-> 200, body |-> b ] : b \in Bodies }
    \cup { [ kind |-> "badjson", status |-> 200, body |-> NoBody ] }
    \cup { [ kind |-> "http", status |-> s, body |-> NoBody ] : s \in { 404, 503 } }
    \cup { [ kind |-> k, status |-> 0, body |-> NoBody ] : k \in { "network", "timeout" } }

\* response.ok
ResponseOk(r) == r.status >= 200 /\ r.status < 300

NoError == << "", 0 >>

\* The Error each failed attempt throws inside the try block of fetchWithRetry
AttemptError(r) ==
    IF r.kind = "http"
    THEN IF r.status >= 400 /\ r.status < 500
         THEN << "API error: ", r.status >>
         ELSE << "HTTP ", r.status >>
    ELSE IF r.kind = "network" THEN << "TypeError: Failed to fetch", 0 >>
    ELSE IF r.kind = "timeout" THEN << "AbortError", 0 >>
    ELSE IF r.kind = "badjson" THEN << "SyntaxError", 0 >>
    ELSE NoError

\* AttemptSucceeds that takes every ok response for a payload
AttemptSucceedsUnparsed(r) == ResponseOk(r)

\* An attempt succeeds when the response is ok and its body parses
AttemptSucceeds(r) == r.kind = "ok" /\ ResponseOk(r)

\* How an attempt ended: 2 a payload, 4 a 4xx response, 5 any other failure
\* (5xx, network failure, timeout abort, a body that is not JSON)
AttemptClass(r) ==
    IF AttemptSucceeds(r) THEN 2
    ELSE IF r.kind = "http" /\ r.status >= 400 /\ r.status < 500 THEN 4
    ELSE 5

----------------------------------------------------------------------------
(* localStorage and the cache functions of the API module *)

\* Values of a storage key: null (no item), or a string
NullItem == [ t |-> "null", v |-> NoBody ]
EmptyString == [ t |-> "empty", v |-> NoBody ]
GarbageString == [ t |-> "garbage", v |-> NoBody ]
NullTime == [ t |-> "null", v |-> 0 ]

\* JSON.stringify and JSON.parse
JsonStringify(body) == [ t |-> "json", v |-> body ]
JsonParses(str) == str.t = "json"
JsonParse(str) == str.v

\* new Date().toISOString()
ToISOString(t) == Iso(t)

\* JavaScript truthiness of a value returned by getItem
Truthy(item) == item.t \notin { "null", "empty" }

\* How a call of saveToCache can go: both setItem calls succeed, the first
\* throws (nothing written), or the second throws (only the posts written)
SaveOutcomes == { "ok", "failData", "failTime" }

\* saveToCache that writes the timestamp before the posts
saveToCacheTimeFirst(store, data, t, outcome) ==
    IF outcome = "failTime" THEN store
    ELSE IF outcome = "failData" THEN [ store EXCEPT !.time = ToISOString(t) ]
    ELSE [ data |-> JsonStringify(data), time |-> ToISOString(t) ]

\* saveToCache that removes both keys when a write fails
saveToCacheRollback(store, data, t, outcome) ==
    IF outcome = "ok"
    THEN [ data |-> JsonStringify(data), time |-> ToISOString(t) ]
    ELSE [ data |-> NullItem, time |-> NullTime ]

\* saveToCache that leaves a stored payload in place: the first write wins
saveToCacheFirstWins(store, data, t, outcome) ==
    IF outcome = "failData" \/ Truthy(store.data) THEN store
    ELSE IF outcome = "failTime" THEN [ store EXCEPT !.data = JsonStringify(data) ]
    ELSE [ data |-> JsonStringify(data), time |-> ToISOString(t) ]

\* saveToCache that records the time of the save and leaves the stored posts
saveToCacheKeepsPosts(store, data, t, outcome) ==
    IF outcome = "failData" THEN store
    ELSE [ store EXCEPT !.time = ToISOString(t) ]

saveToCache(store, data, t, outcome) ==
    IF outcome = "failData" THEN store
    ELSE IF outcome = "failTime" THEN [ store EXCEPT !.data = JsonStringify(data) ]
    ELSE [ data |-> JsonStringify(data), time |-> ToISOString(t) ]

NoCache == [ present |-> FALSE, data |-> NoBody, timestamp |-> NullDate ]

getFromCache(store) ==
    IF Truthy(store.data) /\ Truthy(store.time) /\ JsonParses(store.data)
    THEN [ present |-> TRUE,
           data |-> JsonParse(store.data),
           timestamp |-> NewDate(store.time) ]
    ELSE NoCache

getCachedFeed(store) == getFromCache(store)

\* AfterFailure with the last attempt taken one too early
AfterFailureOffByOne(att, maxRetries) ==
    IF att + 1 >= maxRetries THEN [ do |-> "throw", ms |-> 0 ]
    ELSE IF att < Len(delays) THEN [ do |-> "wait", ms |-> delays[att + 1] ]
    ELSE [ do |-> "next", ms |-> 0 ]

\* AfterFailure that waits the same first delay before every retry
AfterFailureFlatDelay(att, maxRetries) ==
    IF att = maxRetries THEN [ do |-> "throw", ms |-> 0 ]
    ELSE IF att < Len(delays) THEN [ do |-> "wait", ms |-> delays[1] ]
    ELSE [ do |-> "next", ms |-> 0 ]

\* What fetchWithRetry does after a failed attempt: rethrow, wait, or go on
AfterFailure(att, maxRetries) ==
    IF att = maxRetries THEN [ do |-> "throw", ms |-> 0 ]
    ELSE IF att < Len(delays) THEN [ do |-> "wait", ms |-> delays[att + 1] ]
    ELSE [ do |-> "next", ms |-> 0 ]

\* A FeedResult, or the error fetchFeed raises
FeedResult(status, data, fc, ts, err) ==
    [ status |-> status, data |-> data, fromCache |-> fc, timestamp |-> ts, error |-> err ]

NoResult == FeedResult("none", NoBody, FALSE, NullDate, NoError)

\* fetchFeedFresh that answers from the cache whenever one is present
fetchFeedCacheFirst(data, t) ==
    LET cached == getFromCache(storage) IN
    IF cached.present
    THEN FeedResult("returned", cached.data, TRUE, cached.timestamp, NoError)
    ELSE FeedResult("returned", data, FALSE, DateOf(t), NoError)

\* fetchFeed, when fetchWithRetry returned data at time t
fetchFeedFresh(data, t) == FeedResult("returned", data, FALSE, DateOf(t), NoError)

\* fetchFeedFallback that stamps the cached posts with the current time
fetchFeedFallbackNow(store, err) ==
    LET cached == getFromCache(store) IN
    IF cached.present
    THEN FeedResult("returned", cached.data, TRUE, DateOf(now), err)
    ELSE FeedResult("raised", NoBody, FALSE, NullDate, err)

\* fetchFeedFallback that never raises: no cache gives an empty degraded result
fetchFeedFallbackSwallow(store, err) ==
    LET cached == getFromCache(store) IN
    FeedResult("returned", cached.data, TRUE, cached.timestamp, err)

\* fetchFeedFallback that reports one fixed message instead of the error it caught
fetchFeedFallbackGeneric(store, err) ==
    LET cached == getFromCache(store) IN
    IF cached.present
    THEN FeedResult("returned", cached.data, TRUE, cached.timestamp,
                    << "Failed to load feed", 0 >>)
    ELSE FeedResult("raised", NoBody, FALSE, NullDate, err)

\* fetchFeed, when fetchWithRetry threw err: the catch block
fetchFeedFallback(store, err) ==
    LET cached == getFromCache(store) IN
    IF cached.present
    THEN FeedResult("returned", cached.data, TRUE, cached.timestamp, err)
    ELSE FeedResult("raised", NoBody, FALSE, NullDate, err)

----------------------------------------------------------------------------
(* FacebookFeedWidget: constructor *)

\* Values of the itemsPerPage option: absent, a numeral, or text parseInt cannot read
AbsentOption == [ t |-> "absent", v |-> 0 ]
Numeral(n) == [ t |-> "num", v |-> n ]
TextOption == [ t |-> "text", v |-> 0 ]
NullString == [ t |-> "null", v |-> 0 ]

\* parseInt(x) || 5: NaN and 0 are falsy
ParseItemsPerPage(opt) ==
    IF opt.t = "num" /\ opt.v # 0 THEN opt.v ELSE DefaultItemsPerPage

\* options.filterKeywords ? split(";").map(trim, lower).filter(nonempty) : null
ParseKeywords(str) ==
    IF str = << >>
    THEN [ isNull |-> TRUE, list |-> << >> ]
    ELSE LET parts == Split(str)
             mapped == [ i \in 1..Len(parts) |-> ToLowerCase(Trim(parts[i])) ]
         IN [ isNull |-> FALSE, list |-> SelectSeq(mapped, LAMBDA k : k # << >>) ]

\* options.startDate ? new Date(options.startDate) : null
ParseDateOption(str) == IF str.t = "null" THEN NullDate ELSE NewDate(str)

Constructor(options) ==
    [ itemsPerPage |-> ParseItemsPerPage(options.itemsPerPage),
      filterKeywords |-> ParseKeywords(options.filterKeywords),
      startDate |-> ParseDateOption(options.startDate),
      endDate |-> ParseDateOption(options.endDate),
      tz |-> options.tz ]

\* UTC+09:30, the time zone offset of the Northern Territory
Darwin == 19 * (DayMs \div 48)

\* Option sets the host page may supply (tz: the browser's offset from UTC)
OptionSets ==
    { [ itemsPerPage |-> AbsentOption, filterKeywords |-> << >>,
        startDate |-> NullString, endDate |-> NullString, tz |-> 0 ],
      [ itemsPerPage |-> Numeral(1),
        filterKeywords |-> << "F", "i", "r", "e", ";", " ", "c", "y", "c", " ", ";" >>,
        startDate |-> NullString, endDate |-> NullString, tz |-> 0 ],
      [ itemsPerPage |-> TextOption, filterKeywords |-> << >>,
        startDate |-> Iso(2 * DayMs), endDate |-> Iso(2 * DayMs), tz |-> Darwin ],
      [ itemsPerPage |-> Numeral(0 - 1), filterKeywords |-> << ";" >>,
        startDate |-> NullString, endDate |-> NullString, tz |-> 0 ] }

----------------------------------------------------------------------------
(* FacebookFeedWidget: filterPosts, render, showError *)

\* a < b on Date objects: false when either is Invalid Date
DateLess(a, b) == a.k = "date" /\ b.k = "date" /\ a.ms < b.ms

\* new Date(d) followed by setHours(23, 59, 59, 999), in local time
EndOfDay(d, tz) ==
    IF d.k # "date" THEN InvalidDate
    ELSE LET local == d.ms + tz
         IN DateOf(local - (local % DayMs) + DayMs - 1 - tz)

\* post.message || ""
MessageText(post) == IF post.message = Undefined THEN << >> ELSE post.message

\* KeepPost that compares the keywords with the message as written
KeepPostCaseSensitive(c, post) ==
    \/ c.filterKeywords.isNull
    \/ Len(c.filterKeywords.list) = 0
    \/ \E i \in 1..Len(c.filterKeywords.list) :
           Includes(MessageText(post), c.filterKeywords.list[i])

KeepPost(c, post) ==
    LET postDate == NewDate(post.created_time)
        dateOk ==
            IF c.startDate.k # "null" \/ c.endDate.k # "null"
            THEN /\ ~(c.startDate.k # "null" /\ DateLess(postDate, c.startDate))
                 /\ ~(c.endDate.k # "null" /\ DateLess(EndOfDay(c.endDate, c.tz), postDate))
            ELSE TRUE
        keywordOk ==
            IF ~c.filterKeywords.isNull /\ Len(c.filterKeywords.list) > 0
            THEN LET message == ToLowerCase(MessageText(post))
                 IN \E i \in 1..Len(c.filterKeywords.list) :
                        Includes(message, c.filterKeywords.list[i])
            ELSE TRUE
    IN dateOk /\ keywordOk

\* filterPosts(posts): posts.filter is not a function when the body is an object
filterPosts(c, body) ==
    IF body.shape = "none" THEN [ threw |-> FALSE, posts |-> << >> ]
    ELSE IF body.shape = "object" THEN [ threw |-> TRUE, posts |-> << >> ]
    ELSE IF Len(body.items) = 0 THEN [ threw |-> FALSE, posts |-> << >> ]
    ELSE [ threw |-> FALSE, posts |-> SelectSeq(body.items, LAMBDA p : KeepPost(c, p)) ]

\* Math.ceil(a / b) for a >= 0 and b # 0
CeilDiv(a, b) == IF b > 0 THEN (a + b - 1) \div b ELSE 0 - (a \div (0 - b))

TotalPages(c, ps) == CeilDiv(Len(ps), c.itemsPerPage)

\* Array.prototype.slice(start, end)
Slice(s, start, end) ==
    LET n == Len(s)
        from == IF start < 0 THEN (IF n + start < 0 THEN 0 ELSE n + start)
                ELSE (IF start > n THEN n ELSE start)
        to == IF end < 0 THEN (IF n + end < 0 THEN 0 ELSE n + end)
              ELSE (IF end > n THEN n ELSE end)
    IN IF from < to THEN SubSeq(s, from + 1, to) ELSE << >>

\* What the element shows
Dom(kind, notice, noticeTime, pagePosts, pagination, spinner) ==
    [ kind |-> kind, notice |-> notice, noticeTime |-> noticeTime,
      pagePosts |-> pagePosts, pagination |-> pagination, spinner |-> spinner ]

EmptyDom == Dom("empty", FALSE, NullDate, << >>, FALSE, FALSE)
SkeletonDom == Dom("skeleton", FALSE, NullDate, << >>, FALSE, FALSE)
ErrorDom == Dom("error", FALSE, NullDate, << >>, FALSE, FALSE)

\* PagePosts with the slice taken one page too far
PagePostsNextPage(c, self) ==
    LET start == self.currentPage * c.itemsPerPage
    IN Slice(self.posts, start, start + c.itemsPerPage)

PagePosts(c, self) ==
    LET start == (self.currentPage - 1) * c.itemsPerPage
    IN Slice(self.posts, start, start + c.itemsPerPage)

\* render that never shows the cache notice
renderNoNotice(c, self) ==
    [ self EXCEPT !.dom =
        Dom("content", FALSE, NullDate, PagePosts(c, self),
            TotalPages(c, self.posts) > 1, FALSE) ]

render(c, self) ==
    [ self EXCEPT !.dom =
        Dom("content",
            self.fromCache,
            IF self.fromCache THEN self.cacheTimestamp ELSE NullDate,
            PagePosts(c, self),
            TotalPages(c, self.posts) > 1,
            FALSE) ]

\* showError that forgets the posts when it shows the fallback message
showErrorClears(c, self, store) ==
    LET cached == getCachedFeed(store) IN
    IF cached.present
    THEN LET f == filterPosts(c, cached.data) IN
         IF f.threw THEN [ self EXCEPT !.threw = TRUE ]
         ELSE render(c, [ self EXCEPT !.posts = f.posts,
                                      !.fromCache = TRUE,
                                      !.cacheTimestamp = cached.timestamp,
                                      !.currentPage = 1 ])
    ELSE [ self EXCEPT !.dom = ErrorDom, !.posts = << >>, !.currentPage = 1 ]

\* showError(): render the cached feed, or the fallback message and link
showError(c, self, store) ==
    LET cached == getCachedFeed(store) IN
    IF cached.present
    THEN LET f == filterPosts(c, cached.data) IN
         IF f.threw THEN [ self EXCEPT !.threw = TRUE ]
         ELSE render(c, [ self EXCEPT !.posts = f.posts,
                                      !.fromCache = TRUE,
                                      !.cacheTimestamp = cached.timestamp,
                                      !.currentPage = 1 ])
    ELSE [ self EXCEPT !.dom = ErrorDom ]

\* loadFeedSettled that renders before it resets the page
loadFeedSettledRenderFirst(c, self, res, store) ==
    LET f == filterPosts(c, res.data)
        tried ==
            IF res.status = "raised" \/ f.threw
            THEN showError(c, self, store)
            ELSE [ render(c, [ self EXCEPT !.posts = f.posts,
                                           !.fromCache = res.fromCache,
                                           !.cacheTimestamp = res.timestamp ])
                     EXCEPT !.currentPage = 1 ]
    IN [ tried EXCEPT !.isLoading = FALSE ]

\* loadFeedSettled that leaves the current page as it is
loadFeedSettledKeepsPage(c, self, res, store) ==
    LET f == filterPosts(c, res.data)
        tried ==
            IF res.status = "raised" \/ f.threw
            THEN showError(c, self, store)
            ELSE render(c, [ self EXCEPT !.posts = f.posts,
                                         !.fromCache = res.fromCache,
                                         !.cacheTimestamp = res.timestamp ])
    IN [ tried EXCEPT !.isLoading = FALSE ]

\* loadFeedSettled that shows the posts of a degraded result without filtering them
loadFeedSettledRawCache(c, self, res, store) ==
    LET f == IF res.fromCache /\ res.data.shape = "array"
             THEN [ threw |-> FALSE, posts |-> res.data.items ]
             ELSE filterPosts(c, res.data)
        tried ==
            IF res.status = "raised" \/ f.threw
            THEN showError(c, self, store)
            ELSE render(c, [ self EXCEPT !.posts = f.posts,
                                         !.fromCache = res.fromCache,
                                         !.cacheTimestamp = res.timestamp,
                                         !.currentPage = 1 ])
    IN [ tried EXCEPT !.isLoading = FALSE ]

\* loadFeed after fetchFeed settled: the try, catch and finally blocks
loadFeedSettled(c, self, res, store) ==
    LET f == filterPosts(c, res.data)
        tried ==
            IF res.status = "raised" \/ f.threw
            THEN showError(c, self, store)
            ELSE render(c, [ self EXCEPT !.posts = f.posts,
                                         !.fromCache = res.fromCache,
                                         !.cacheTimestamp = res.timestamp,
                                         !.currentPage = 1 ])
    IN [ tried EXCEPT !.isLoading = FALSE ]

\* showLoadingState(): display the spinner the rendered header holds
showLoadingState(self) ==
    IF self.dom.kind = "content"
    THEN [ self EXCEPT !.dom.spinner = TRUE ]
    ELSE self

\* showSkeletonLoader(): Array(itemsPerPage) throws RangeError on a negative length
showSkeletonLoader(c, self) ==
    IF c.itemsPerPage < 0
    THEN [ self EXCEPT !.threw = TRUE ]
    ELSE [ self EXCEPT !.dom = SkeletonDom ]

\* loadFeedStart without the isLoading guard
loadFeedStartUnguarded(c, self, isRefresh) ==
    LET s1 == [ self EXCEPT !.isLoading = TRUE ]
    IN IF isRefresh THEN showLoadingState(s1) ELSE showSkeletonLoader(c, s1)

\* loadFeed up to its first await: the guard, the flag and the loading display
loadFeedStart(c, self, isRefresh) ==
    IF self.isLoading THEN [ self EXCEPT !.ignored = TRUE ]
    ELSE LET s1 == [ self EXCEPT !.isLoading = TRUE ]
         IN IF isRefresh THEN showLoadingState(s1) ELSE showSkeletonLoader(c, s1)

\* goToPage without the upper bound of its guard
goToPageNoUpper(c, self, page) ==
    IF page < 1
    THEN [ self EXCEPT !.ignored = TRUE ]
    ELSE render(c, [ self EXCEPT !.currentPage = page ])

\* goToPage without the lower bound of its guard
goToPageNoLower(c, self, page) ==
    IF page > TotalPages(c, self.posts)
    THEN [ self EXCEPT !.ignored = TRUE ]
    ELSE render(c, [ self EXCEPT !.currentPage = page ])

goToPage(c, self, page) ==
    IF page < 1 \/ page > TotalPages(c, self.posts)
    THEN [ self EXCEPT !.ignored = TRUE ]
    ELSE render(c, [ self EXCEPT !.currentPage = page ])

destroy(self) == [ self EXCEPT !.observing = FALSE, !.dom = EmptyDom ]

\* observerCallback that keeps observing the element after it started a load
RECURSIVE observerCallbackKeeps(_, _, _)
observerCallbackKeeps(c, self, entries) ==
    IF entries = << >> THEN self
    ELSE LET s1 == IF Head(entries) /\ ~self.isLoading /\ Len(self.posts) = 0
                   THEN [ loadFeedStart(c, self, FALSE) EXCEPT !.started = TRUE ]
                   ELSE self
         IN observerCallbackKeeps(c, s1, Tail(entries))

\* The IntersectionObserver callback: entries are the isIntersecting flags
RECURSIVE observerCallback(_, _, _)
observerCallback(c, self, entries) ==
    IF entries = << >> THEN self
    ELSE LET s1 == IF Head(entries) /\ ~self.isLoading /\ Len(self.posts) = 0
                   THEN [ loadFeedStart(c, self, FALSE) EXCEPT
                              !.observing = FALSE, !.started = TRUE ]
                   ELSE self
         IN observerCallback(c, s1, Tail(entries))

----------------------------------------------------------------------------
(* State *)

\* The widget w as an object, with the outcome flags of the running method
Self(w) ==
    [ posts |-> posts[w], currentPage |-> currentPage[w], isLoading |-> isLoading[w],
      fromCache |-> fromCache[w], cacheTimestamp |-> cacheTimestamp[w],
      observing |-> observing[w], dom |-> dom[w],
      threw |-> FALSE, ignored |-> FALSE, started |-> FALSE ]

\* The widgets whose this.element is the element of w: they write the same innerHTML
CoHosted(w) ==
    { w } \cup UNION { elements[e].widgets : e \in { x \in Elements : w \in elements[x].widgets } }

Commit(w, s) ==
    /\ posts' = [ posts EXCEPT ![w] = s.posts ]
    /\ currentPage' = [ currentPage EXCEPT ![w] = s.currentPage ]
    /\ isLoading' = [ isLoading EXCEPT ![w] = s.isLoading ]
    /\ fromCache' = [ fromCache EXCEPT ![w] = s.fromCache ]
    /\ cacheTimestamp' = [ cacheTimestamp EXCEPT ![w] = s.cacheTimestamp ]
    /\ observing' = [ observing EXCEPT ![w] = s.observing ]
    /\ dom' = [ v \in Widgets |-> IF v \in CoHosted(w) THEN s.dom ELSE dom[v] ]

widgetVars == << posts, currentPage, isLoading, fromCache, cacheTimestamp, observing, dom >>
fetchVars == << pc, attempt, inflight, log >>
cacheVars == << storage, cacheWriter >>

Event(ev, arg) == [ ev |-> ev, arg |-> arg ]

\* The record of a step: the method or continuation, its widget and outcome, and,
\* for the step that settles a loadFeed call, what fetchFeed observed and returned
\* and the page that was current when the call settled and the time of its cache write
Op(op, w, outcome) ==
    [ op |-> op, w |-> w, outcome |-> outcome,
      live |-> "none", payload |-> NoBody, error |-> NoError, save |-> "none",
      cacheRead |-> FALSE, cached |-> NoCache, result |-> NoResult, log |-> << >>,
      pageBefore |-> 0, savedAt |-> 0 ]

\* What localStorage can hold when the page loads
InitialStores ==
    { [ data |-> NullItem, time |-> NullTime ],
      [ data |-> JsonStringify(ArrayBody(Feed(1))), time |-> ToISOString(0) ],
      [ data |-> GarbageString, time |-> ToISOString(0) ],
      [ data |-> JsonStringify(ArrayBody(Feed(1))), time |-> NotADate ] }

InitCore(stores, options, built, retryArgs) ==
    /\ storage \in stores
    /\ now = 0
    /\ cfg \in [ Widgets -> { Constructor(o) : o \in options } ]
    /\ \A w \in Widgets \ built : cfg[w] = Constructor(CHOOSE o \in options : TRUE)
    /\ posts = [ w \in Widgets |-> << >> ]
    /\ currentPage = [ w \in Widgets |-> 1 ]
    /\ isLoading = [ w \in Widgets |-> FALSE ]
    /\ fromCache = [ w \in Widgets |-> FALSE ]
    /\ cacheTimestamp = [ w \in Widgets |-> NullDate ]
    /\ observing = [ w \in Widgets |-> w \in built ]
    /\ dom = [ w \in Widgets |-> EmptyDom ]
    /\ pc = [ w \in Widgets |-> IF w \in built THEN "idle" ELSE "absent" ]
    /\ attempt = [ w \in Widgets |-> 0 ]
    /\ inflight = [ w \in Widgets |-> 0 ]
    /\ log = [ w \in Widgets |-> << >> ]
    /\ cacheWriter = [ data |-> 0, time |-> 0 ]
    /\ lastOp = Op("new", "w1", "constructed")
    /\ retries \in retryArgs
    /\ microtasks = << >>

\* A container element: whether it carries data-securent-fb-widget, data-no-init and
\* data-securent-fb-initialized, the widget its _securentFbWidget property holds ("null"
\* when unset), and the widgets constructed with it as their this.element
Element(marked, noInit, initialized, instance, widgets) ==
    [ marked |-> marked, noInit |-> noInit,
      initialized |-> initialized, instance |-> instance, widgets |-> widgets ]

\* The page after initWidgets built the widgets in built, the i-th widget on the i-th
\* element
BuiltElements(built) ==
    [ e \in Elements |->
        LET w == WidgetSeq[CHOOSE i \in 1..Len(ElementSeq) : ElementSeq[i] = e] IN
        IF w \in built THEN Element(TRUE, FALSE, TRUE, w, { w })
        ELSE Element(FALSE, FALSE, FALSE, "null", { }) ]

InitWith(stores, options, built, retryArgs) ==
    /\ InitCore(stores, options, built, retryArgs)
    /\ elements = BuiltElements(built)

----------------------------------------------------------------------------
(* Actions *)

\* The microtask queue is empty: the event loop takes the next task (a call by the page's
\* script, an event handler, an observer callback, a timer)
Drained == microtasks = << >>

\* A continuation in the microtask queue: the function that resumes (k) and the record of
\* the loadFeed call so far
Continuation(k, op) == [ k |-> k, op |-> op ]

\* fetchFeed -> fetchWithRetry: attempt 0 issues the first request
StartFetch(w) ==
    /\ pc' = [ pc EXCEPT ![w] = "fetch" ]
    /\ attempt' = [ attempt EXCEPT ![w] = 0 ]
    /\ inflight' = [ inflight EXCEPT ![w] = @ + 1 ]
    /\ log' = [ log EXCEPT ![w] = << Event("request", 0) >> ]

\* loadFeed(isRefresh), called by the refresh button or by the page's script
LoadFeed(w, isRefresh) ==
    /\ Drained
    /\ pc[w] # "absent"
    /\ LET s == loadFeedStart(cfg[w], Self(w), isRefresh) IN
       /\ Commit(w, s)
       /\ IF s.ignored \/ s.threw
          THEN /\ UNCHANGED fetchVars
               /\ lastOp' = Op("loadFeed", w, IF s.ignored THEN "ignored" ELSE "threw")
          ELSE /\ StartFetch(w)
               /\ lastOp' = Op("loadFeed", w, "started")
    /\ UNCHANGED << cacheVars, now, cfg, retries, elements, microtasks >>

\* The IntersectionObserver delivers entries for the element
Visible(w, entries) ==
    /\ Drained
    /\ pc[w] # "absent"
    /\ observing[w]
    /\ LET s == observerCallback(cfg[w], Self(w), entries) IN
       /\ Commit(w, s)
       /\ IF s.started /\ ~s.threw
          THEN /\ StartFetch(w)
               /\ lastOp' = Op("visible", w, "started")
          ELSE /\ UNCHANGED fetchVars
               /\ lastOp' = Op("visible", w, IF s.threw THEN "threw" ELSE "ignored")
    /\ UNCHANGED << cacheVars, now, cfg, retries, elements, microtasks >>

\* How a settled loadFeed call left the widget
SettledAs(s) ==
    IF s.threw THEN "threw"
    ELSE IF s.dom.kind = "error" THEN "errored"
    ELSE IF s.fromCache THEN "degraded"
    ELSE "rendered"

\* The events of loadFeed's catch block: showError reads the cache
CatchEvents(c, res) ==
    IF res.status = "raised" \/ filterPosts(c, res.data).threw
    THEN << Event("cacheRead", 2) >>
    ELSE << >>

\* The loadFeed call of w ends: its continuation ran to the end of the finally block
EndFetch(w) ==
    /\ pc' = [ pc EXCEPT ![w] = "idle" ]
    /\ inflight' = [ inflight EXCEPT ![w] = @ - 1 ]
    /\ log' = [ log EXCEPT ![w] = << >> ]
    /\ UNCHANGED attempt

\* await fetch resolves with an ok response: the abort timer is cleared and the body is
\* awaited
HeadersArrive(w) ==
    /\ pc[w] = "fetch"
    /\ pc' = [ pc EXCEPT ![w] = "body" ]
    /\ lastOp' = Op("attempt", w, "headers")
    /\ UNCHANGED << widgetVars, attempt, inflight, log, cacheVars, now, cfg, retries, elements, microtasks >>

\* The stage at which response r ends an attempt: a body is parsed, or found not to be
\* JSON, after the headers arrived; the connection can fail at either stage
Stages(r) ==
    IF r.kind \in { "ok", "badjson" } THEN { "body" }
    ELSE IF r.kind = "network" THEN { "fetch", "body" }
    ELSE { "fetch" }

\* The body of an ok response parses: fetchWithRetry saves it at the time now and returns
\* it, which makes the continuation of fetchFeed ready
FetchResolves(w, r, outcome) ==
    /\ pc[w] \in Stages(r)
    /\ AttemptSucceeds(r)
    /\ storage' = saveToCache(storage, r.body, now, outcome)
    /\ cacheWriter' = IF outcome = "ok" THEN [ data |-> 1, time |-> 1 ]
                      ELSE IF outcome = "failTime" THEN [ data |-> 1, time |-> 0 ]
                      ELSE cacheWriter
    /\ pc' = [ pc EXCEPT ![w] = "returned" ]
    /\ log' = [ log EXCEPT ![w] =
                  @ \o << Event("response", AttemptClass(r)), Event("save", 0) >> ]
    /\ LET op == [ Op("settle", w, "pending") EXCEPT
                     !.live = "ok", !.payload = r.body, !.save = outcome, !.savedAt = now ]
       IN /\ microtasks' = Append(microtasks, Continuation("fetchFeed", op))
          /\ lastOp' = [ op EXCEPT !.op = "save", !.outcome = outcome ]
    /\ UNCHANGED << widgetVars, attempt, inflight, now, cfg, retries, elements >>

\* An attempt fails: error status, network failure, timeout abort or bad JSON. The catch
\* block waits, goes on to the next attempt, or throws the error to fetchFeed
FetchFails(w, r) ==
    /\ pc[w] \in Stages(r)
    /\ ~AttemptSucceeds(r)
    /\ LET a == AfterFailure(attempt[w], retries) IN
       IF a.do = "throw"
       THEN LET op == [ Op("settle", w, "pending") EXCEPT
                          !.live = "failed", !.error = AttemptError(r) ]
            IN /\ pc' = [ pc EXCEPT ![w] = "returned" ]
               /\ log' = [ log EXCEPT ![w] = Append(@, Event("response", AttemptClass(r))) ]
               /\ microtasks' = Append(microtasks, Continuation("fetchFeed", op))
               /\ lastOp' = [ op EXCEPT !.op = "throw", !.outcome = AttemptClass(r) ]
               /\ UNCHANGED << attempt >>
       ELSE IF a.do = "wait"
       THEN /\ pc' = [ pc EXCEPT ![w] = "backoff" ]
            /\ log' = [ log EXCEPT ![w] =
                          @ \o << Event("response", AttemptClass(r)), Event("wait", a.ms) >> ]
            /\ lastOp' = Op("attempt", w, "wait")
            /\ UNCHANGED << attempt, microtasks >>
       ELSE /\ pc' = [ pc EXCEPT ![w] = "fetch" ]
            /\ attempt' = [ attempt EXCEPT ![w] = @ + 1 ]
            /\ log' = [ log EXCEPT ![w] =
                          @ \o << Event("response", AttemptClass(r)),
                                  Event("request", attempt[w] + 1) >> ]
            /\ lastOp' = Op("attempt", w, "next")
            /\ UNCHANGED << microtasks >>
    /\ UNCHANGED << widgetVars, inflight, cacheVars, now, cfg, retries, elements >>

\* The continuation of fetchFeed runs: after a return of fetchWithRetry it stamps the data
\* with the time now; after a throw it reads the cache as it is now
FetchFeedResumes ==
    /\ ~Drained
    /\ Head(microtasks).k = "fetchFeed"
    /\ LET m == Head(microtasks).op
           w == m.w
           res == IF m.live = "ok" THEN fetchFeedFresh(m.payload, now)
                  ELSE fetchFeedFallback(storage, m.error)
           op == IF m.live = "ok" THEN [ m EXCEPT !.result = res ]
                 ELSE [ m EXCEPT !.cacheRead = TRUE, !.cached = getFromCache(storage),
                                 !.result = res ]
       IN /\ microtasks' = Append(Tail(microtasks), Continuation("loadFeed", op))
          /\ pc' = [ pc EXCEPT ![w] = "settling" ]
          /\ log' = [ log EXCEPT ![w] =
                        IF m.live = "ok" THEN @ ELSE Append(@, Event("cacheRead", 1)) ]
          /\ lastOp' = [ op EXCEPT !.op = "fetchFeed", !.outcome = res.status ]
    /\ UNCHANGED << widgetVars, attempt, inflight, cacheVars, now, cfg, retries, elements >>

\* The continuation of loadFeed runs to the end of its finally block: filter and render,
\* or showError with the cache as it is now
LoadFeedResumes ==
    /\ ~Drained
    /\ Head(microtasks).k = "loadFeed"
    /\ LET m == Head(microtasks).op
           w == m.w
           s == loadFeedSettled(cfg[w], Self(w), m.result, storage)
       IN /\ Commit(w, s)
          /\ lastOp' = [ m EXCEPT !.outcome = SettledAs(s),
                                  !.pageBefore = currentPage[w],
                                  !.log = log[w] \o CatchEvents(cfg[w], m.result) ]
          /\ EndFetch(w)
    /\ microtasks' = Tail(microtasks)
    /\ UNCHANGED << cacheVars, now, cfg, retries, elements >>

\* The backoff timer fires: the loop goes on to the next attempt
TimerFires(w) ==
    /\ Drained
    /\ pc[w] = "backoff"
    /\ pc' = [ pc EXCEPT ![w] = "fetch" ]
    /\ attempt' = [ attempt EXCEPT ![w] = @ + 1 ]
    /\ log' = [ log EXCEPT ![w] = Append(@, Event("request", attempt[w] + 1)) ]
    /\ lastOp' = Op("attempt", w, "request")
    /\ UNCHANGED << widgetVars, cacheVars, inflight, now, cfg, retries, elements, microtasks >>

\* goToPage(page), called by the pagination links or by the page's script
GoToPage(w, page) ==
    /\ Drained
    /\ pc[w] # "absent"
    /\ LET s == goToPage(cfg[w], Self(w), page) IN
       /\ Commit(w, s)
       /\ lastOp' = Op("goToPage", w, IF s.ignored THEN "ignored" ELSE "moved")
    /\ UNCHANGED << fetchVars, cacheVars, now, cfg, retries, elements, microtasks >>

\* destroy()
Destroy(w) ==
    /\ Drained
    /\ pc[w] # "absent"
    /\ Commit(w, destroy(Self(w)))
    /\ lastOp' = Op("destroy", w, "done")
    /\ UNCHANGED << fetchVars, cacheVars, now, cfg, retries, elements, microtasks >>

\* Time passes
Tick ==
    /\ now < MaxTime
    /\ now' = now + 1
    /\ lastOp' = Op("tick", "w1", "done")
    /\ UNCHANGED << widgetVars, fetchVars, cacheVars, cfg, retries, elements, microtasks >>

\* The widget objects not yet constructed, in order
FreeWidgets == SelectSeq(WidgetSeq, LAMBDA w : pc[w] = "absent")

\* What element e shows: the innerHTML the widgets constructed on it wrote last
ElementDom(e) ==
    IF elements[e].widgets = { } THEN EmptyDom
    ELSE dom[CHOOSE w \in elements[e].widgets : TRUE]

\* The constructor runs for widget objects news[1..] on the elements todo[1..]: each
\* starts observing its element; initWidgets also marks the element and stores the widget
Construct(todo, news, byInit) ==
    LET At(e) == CHOOSE i \in 1..Len(todo) : todo[i] = e
        On(w) == CHOOSE i \in 1..Len(todo) : news[i] = w
        Todo == { todo[i] : i \in 1..Len(todo) }
        News == { news[i] : i \in 1..Len(todo) }
    IN /\ pc' = [ w \in Widgets |-> IF w \in News THEN "idle" ELSE pc[w] ]
       /\ observing' = [ w \in Widgets |-> IF w \in News THEN TRUE ELSE observing[w] ]
       /\ dom' = [ w \in Widgets |-> IF w \in News THEN ElementDom(todo[On(w)]) ELSE dom[w] ]
       /\ elements' = [ e \in Elements |->
                          IF e \notin Todo THEN elements[e]
                          ELSE IF byInit
                          THEN [ elements[e] EXCEPT !.initialized = TRUE,
                                                    !.instance = news[At(e)],
                                                    !.widgets = @ \cup { news[At(e)] } ]
                          ELSE [ elements[e] EXCEPT !.widgets = @ \cup { news[At(e)] } ] ]
       /\ UNCHANGED << posts, currentPage, isLoading, fromCache, cacheTimestamp,
                       attempt, inflight, log, cacheVars, now, cfg, retries, microtasks >>

\* initWidgets that does not skip the elements already initialized
InitWidgetsNoSkip ==
    LET todo == SelectSeq(ElementSeq, LAMBDA e : elements[e].marked) IN
    /\ Drained
    /\ Len(todo) <= Len(FreeWidgets)
    /\ Construct(todo, FreeWidgets, TRUE)
    /\ lastOp' = Op("init", "w1", IF todo = << >> THEN "none" ELSE "constructed")

\* initWidgets(): a widget for every marked element not yet initialized, while the page
\* has widget objects left
InitWidgets ==
    LET todo == SelectSeq(ElementSeq,
                          LAMBDA e : elements[e].marked /\ ~elements[e].initialized) IN
    /\ Drained
    /\ Len(todo) <= Len(FreeWidgets)
    /\ Construct(todo, FreeWidgets, TRUE)
    /\ lastOp' = Op("init", "w1", IF todo = << >> THEN "none" ELSE "constructed")

\* SecureNTFacebookWidget.create(element, options): a new widget on any element, while
\* the page has widget objects left
Create(e) ==
    /\ Drained
    /\ FreeWidgets # << >>
    /\ Construct(<< e >>, FreeWidgets, FALSE)
    /\ lastOp' = Op("create", FreeWidgets[1], "constructed")

\* SecureNTFacebookWidget.getInstance(element): the widget, or null
getInstance(e) == elements[e].instance

EntryLists == { << FALSE >>, << TRUE >>, << TRUE, TRUE >> }
Pages == 0..(MaxPosts + 1)

\* The responses of an endpoint that serves an empty or a full feed, or answers 503
ServedResponses ==
    { r \in Responses :
        \/ r.kind = "ok" /\ Len(r.body.items) \in { 0, MaxPosts }
        \/ r.status = 503 }

\* The widget's life on a page: every method, an endpoint that serves or is down; the
\* clock moves between any two steps
Next ==
    \/ \E w \in Widgets, isRefresh \in BOOLEAN : LoadFeed(w, isRefresh)
    \/ \E w \in Widgets, entries \in EntryLists : Visible(w, entries)
    \/ \E w \in Widgets, r \in ServedResponses, outcome \in SaveOutcomes :
           FetchResolves(w, r, outcome)
    \/ \E w \in Widgets, r \in ServedResponses : FetchFails(w, r)
    \/ \E w \in Widgets : HeadersArrive(w)
    \/ FetchFeedResumes
    \/ LoadFeedResumes
    \/ \E w \in Widgets : TimerFires(w)
    \/ \E w \in Widgets, page \in Pages : GoToPage(w, page)
    \/ \E w \in Widgets : Destroy(w)
    \/ Tick

Init ==
    InitWith({ st \in InitialStores : st.time.t = "null" \/ (JsonParses(st.data) /\ st.time.t = "iso") },
             { o \in OptionSets : o.itemsPerPage \in { AbsentOption, Numeral(1) } },
             { "w1" }, { DefaultRetries })

Spec == Init /\ [][Next]_vars

\* The API module under every kind of response and every retries argument:
\* loadFeed calls of one widget with the default options
NextFetch ==
    \/ \E w \in Widgets, isRefresh \in BOOLEAN : LoadFeed(w, isRefresh)
    \/ \E w \in Widgets, r \in Responses, outcome \in SaveOutcomes :
           Len(r.body.items) = MaxPosts /\ FetchResolves(w, r, outcome)
    \/ \E w \in Widgets, r \in Responses : FetchFails(w, r)
    \/ \E w \in Widgets : HeadersArrive(w)
    \/ FetchFeedResumes
    \/ LoadFeedResumes
    \/ \E w \in Widgets : TimerFires(w)
    \/ Tick

InitFetch ==
    InitWith(InitialStores,
             { o \in OptionSets : o.itemsPerPage = AbsentOption },
             { "w1" }, 0..MaxRetries)

SpecFetch == InitFetch /\ [][NextFetch]_vars

\* Pagination of a loaded feed: the widget has rendered a feed of up to MaxFeed posts;
\* the page calls goToPage and refresh, and the endpoint does not answer

PageOptions ==
    { [ itemsPerPage |-> v, filterKeywords |-> << >>,
        startDate |-> NullString, endDate |-> NullString, tz |-> 0 ] :
          v \in { AbsentOption, Numeral(1), Numeral(2) } }

PageTargets == 0..(MaxFeed + 1)

InitPage ==
    \E o \in PageOptions, n \in 0..MaxFeed :
        LET c == Constructor(o)
            first == [ posts |-> << >>, currentPage |-> 1, isLoading |-> FALSE,
                       fromCache |-> FALSE, cacheTimestamp |-> NullDate,
                       observing |-> FALSE, dom |-> EmptyDom,
                       threw |-> FALSE, ignored |-> FALSE, started |-> FALSE ]
            s == render(c, [ first EXCEPT !.posts = filterPosts(c, ArrayBody(Feed(n))).posts,
                                          !.cacheTimestamp = DateOf(0) ])
        IN /\ storage = saveToCache([ data |-> NullItem, time |-> NullTime ],
                                    ArrayBody(Feed(n)), 0, "ok")
           /\ now = 0
           /\ cfg = [ w \in Widgets |-> c ]
           /\ posts = [ w \in Widgets |-> IF w = "w1" THEN s.posts ELSE << >> ]
           /\ currentPage = [ w \in Widgets |-> 1 ]
           /\ isLoading = [ w \in Widgets |-> FALSE ]
           /\ fromCache = [ w \in Widgets |-> FALSE ]
           /\ cacheTimestamp = [ w \in Widgets |-> IF w = "w1" THEN DateOf(0) ELSE NullDate ]
           /\ observing = [ w \in Widgets |-> FALSE ]
           /\ dom = [ w \in Widgets |-> IF w = "w1" THEN s.dom ELSE EmptyDom ]
           /\ pc = [ w \in Widgets |-> IF w = "w1" THEN "idle" ELSE "absent" ]
           /\ attempt = [ w \in Widgets |-> 0 ]
           /\ inflight = [ w \in Widgets |-> 0 ]
           /\ log = [ w \in Widgets |-> << >> ]
           /\ cacheWriter = [ data |-> 1, time |-> 1 ]
           /\ lastOp = Op("new", "w1", "constructed")
           /\ retries = DefaultRetries
           /\ elements = BuiltElements({ "w1" })
           /\ microtasks = << >>

NextPage ==
    \/ \E w \in Widgets, page \in PageTargets : GoToPage(w, page)
    \/ \E w \in Widgets : LoadFeed(w, TRUE)

SpecPage == InitPage /\ [][NextPage]_vars

\* Filtering of a served feed: one widget per filter configuration loads and refreshes
\* feeds of up to MaxFeed posts, or a null body; the cache write succeeds

FilterKeywordOptions ==
    { << >>,
      << "F", "i", "r", "e", ";", " ", "c", "y", "c", " ", ";" >>,
      << ";" >>,
      << "B", "A", "N" >>,
      << " ", "f", "i", "r", "e", ";", "\t", "c", "y", "c", "\n" >>,
      << "Ο", "Σ", ";", "É", "Σ", "É" >>,
      << "Ґ", ";", " ", "Α", "΄", "Σ" >> }

FilterDateOptions ==
    { [ startDate |-> NullString, endDate |-> NullString, tz |-> 0 ],
      [ startDate |-> Iso(2 * DayMs), endDate |-> Iso(2 * DayMs), tz |-> Darwin ],
      [ startDate |-> Iso(DayMs), endDate |-> NullString, tz |-> 0 ],
      [ startDate |-> NullString, endDate |-> Iso(DayMs), tz |-> 0 ] }

FilterOptions ==
    { [ itemsPerPage |-> AbsentOption, filterKeywords |-> k,
        startDate |-> d.startDate, endDate |-> d.endDate, tz |-> d.tz ] :
          k \in FilterKeywordOptions, d \in FilterDateOptions }

FilterResponses ==
    { [ kind |-> "ok", status |-> 200, body |-> b ] :
          b \in { ArrayBody(Feed(n)) : n \in 0..MaxFeed }
                    \cup { ArrayBody(InternationalFeed), NoBody } }

InitFilter ==
    InitWith({ [ data |-> NullItem, time |-> NullTime ] }, FilterOptions,
             { "w1" }, { DefaultRetries })

NextFilter ==
    \/ \E w \in Widgets, isRefresh \in BOOLEAN : LoadFeed(w, isRefresh)
    \/ \E w \in Widgets : HeadersArrive(w)
    \/ FetchFeedResumes
    \/ LoadFeedResumes
    \/ \E w \in Widgets, r \in FilterResponses : FetchResolves(w, r, "ok")

SpecFilter == InitFilter /\ [][NextFilter]_vars

\* One widget showing one post a page, from construction on: the lazy trigger, loads and
\* refreshes, paging and destroy; the endpoint serves the full feed or is down, and the
\* cache write succeeds

LifeOptions == { o \in OptionSets : o.itemsPerPage = Numeral(1) }

LifeResponses ==
    { r \in Responses :
        \/ r.kind = "ok" /\ r.body = ArrayBody(Feed(MaxPosts))
        \/ r.status = 503 }

InitLife ==
    InitWith({ st \in InitialStores : st.time.t = "null" \/ (JsonParses(st.data) /\ st.time.t = "iso") },
             LifeOptions, { "w1" }, { DefaultRetries })

NextLife ==
    \/ \E w \in Widgets, isRefresh \in BOOLEAN : LoadFeed(w, isRefresh)
    \/ \E w \in Widgets, entries \in EntryLists : Visible(w, entries)
    \/ \E w \in Widgets, r \in LifeResponses :
           FetchResolves(w, r, "ok")
    \/ \E w \in Widgets, r \in LifeResponses : FetchFails(w, r)
    \/ \E w \in Widgets : HeadersArrive(w)
    \/ FetchFeedResumes
    \/ LoadFeedResumes
    \/ \E w \in Widgets : TimerFires(w)
    \/ \E w \in Widgets, page \in Pages : GoToPage(w, page)
    \/ \E w \in Widgets : Destroy(w)
    \/ Tick

SpecLife == InitLife /\ [][NextLife]_vars

\* Two widgets on one page, each with its own endpoint, sharing the two cache keys:
\* refreshes, fetch outcomes and cache writes of both in every interleaving.
\* The clock stands still here: what the widgets share is studied at one instant,
\* and the age of the stored timestamp is the subject of the other specifications

EndpointFeed(w) == IF w = "w1" THEN Feed(1) ELSE Feed(MaxPosts)

SharedResponses(w) ==
    { r \in Responses :
        \/ r.kind = "ok" /\ r.body = ArrayBody(EndpointFeed(w))
        \/ r.status = 503 }

InitShared ==
    InitWith({ [ data |-> NullItem, time |-> NullTime ] },
             { o \in OptionSets : o.itemsPerPage = AbsentOption },
             Widgets, { DefaultRetries })

NextShared ==
    \/ \E w \in Widgets : LoadFeed(w, TRUE)
    \/ \E w \in Widgets : \E r \in SharedResponses(w), outcome \in SaveOutcomes :
           FetchResolves(w, r, outcome)
    \/ \E w \in Widgets : \E r \in SharedResponses(w) : FetchFails(w, r)
    \/ \E w \in Widgets : HeadersArrive(w)
    \/ FetchFeedResumes
    \/ LoadFeedResumes
    \/ \E w \in Widgets : TimerFires(w)

SpecShared == InitShared /\ [][NextShared]_vars

\* The public API on a page of two elements with any data attributes: auto-initialization,
\* create, and the visibility signal that makes a constructed widget fetch

ElementAttributes ==
    { Element(m, n, FALSE, "null", { }) : m \in BOOLEAN, n \in BOOLEAN }

InitApi ==
    /\ InitCore({ [ data |-> NullItem, time |-> NullTime ] },
                { o \in OptionSets : o.itemsPerPage = AbsentOption },
                { }, { DefaultRetries })
    /\ elements \in [ Elements -> ElementAttributes ]

NextApi ==
    \/ InitWidgets
    \/ \E e \in Elements : Create(e)
    \/ \E w \in Widgets, entries \in EntryLists : Visible(w, entries)

SpecApi == InitApi /\ [][NextApi]_vars

\* One widget built with any of the option sets, on an endpoint that serves a full feed or
\* answers 503

InitOptions ==
    InitWith({ [ data |-> NullItem, time |-> NullTime ] },
             OptionSets, { "w1" }, { DefaultRetries })

NextOptions ==
    \/ \E w \in Widgets, isRefresh \in BOOLEAN : LoadFeed(w, isRefresh)
    \/ \E w \in Widgets, entries \in EntryLists : Visible(w, entries)
    \/ \E w \in Widgets, r \in LifeResponses : FetchResolves(w, r, "ok")
    \/ \E w \in Widgets, r \in LifeResponses : FetchFails(w, r)
    \/ \E w \in Widgets : HeadersArrive(w)
    \/ FetchFeedResumes
    \/ LoadFeedResumes
    \/ \E w \in Widgets : TimerFires(w)
    \/ \E w \in Widgets, page \in Pages : GoToPage(w, page)

SpecOptions == InitOptions /\ [][NextOptions]_vars

\* Two widgets with keyword filters on one page, sharing the cache, on an endpoint that
\* serves one feed or answers 503

ViewFeed == Feed(MaxPosts + 1)

ViewOptions ==
    { o \in FilterOptions :
        /\ o.filterKeywords \in { << "F", "i", "r", "e", ";", " ", "c", "y", "c", " ", ";" >>,
                                  << "B", "A", "N" >> }
        /\ o.startDate = NullString /\ o.endDate = NullString }

ViewResponses ==
    { [ kind |-> "ok", status |-> 200, body |-> ArrayBody(ViewFeed) ],
      [ kind |-> "http", status |-> 503, body |-> NoBody ] }

InitViews ==
    InitWith({ [ data |-> NullItem, time |-> NullTime ] }, ViewOptions,
             Widgets, { DefaultRetries })

NextViews ==
    \/ \E w \in Widgets : LoadFeed(w, TRUE)
    \/ \E w \in Widgets, r \in ViewResponses, outcome \in SaveOutcomes :
           FetchResolves(w, r, outcome)
    \/ \E w \in Widgets, r \in ViewResponses : FetchFails(w, r)
    \/ \E w \in Widgets : HeadersArrive(w)
    \/ FetchFeedResumes
    \/ LoadFeedResumes
    \/ \E w \in Widgets : TimerFires(w)

SpecViews == InitViews /\ [][NextViews]_vars

\* One widget showing one post per page, with storage whose writes can fail, so that a
\* load can fail with posts in the widget and nothing in the cache

InitHard ==
    InitWith({ [ data |-> NullItem, time |-> NullTime ] }, LifeOptions,
             { "w1" }, { DefaultRetries })

NextHard ==
    \/ \E w \in Widgets, isRefresh \in BOOLEAN : LoadFeed(w, isRefresh)
    \/ \E w \in Widgets, r \in LifeResponses, outcome \in SaveOutcomes :
           FetchResolves(w, r, outcome)
    \/ \E w \in Widgets, r \in LifeResponses : FetchFails(w, r)
    \/ \E w \in Widgets : HeadersArrive(w)
    \/ FetchFeedResumes
    \/ LoadFeedResumes
    \/ \E w \in Widgets : TimerFires(w)
    \/ \E w \in Widgets, page \in Pages : GoToPage(w, page)

SpecHard == InitHard /\ [][NextHard]_vars

\* fetchWithRetry on an endpoint that answers 200 with a full feed or with a body that is
\* not JSON

JsonResponses ==
    { r \in Responses :
        \/ r.kind = "badjson"
        \/ r.kind = "ok" /\ r.body = ArrayBody(Feed(MaxPosts)) }

InitJson ==
    InitWith(InitialStores,
             { o \in OptionSets : o.itemsPerPage = AbsentOption },
             { "w1" }, 0..MaxRetries)

NextJson ==
    \/ \E w \in Widgets, isRefresh \in BOOLEAN : LoadFeed(w, isRefresh)
    \/ \E w \in Widgets, r \in JsonResponses : FetchResolves(w, r, "ok")
    \/ \E w \in Widgets, r \in JsonResponses : FetchFails(w, r)
    \/ \E w \in Widgets : HeadersArrive(w)
    \/ FetchFeedResumes
    \/ LoadFeedResumes
    \/ \E w \in Widgets : TimerFires(w)

SpecJson == InitJson /\ [][NextJson]_vars

----------------------------------------------------------------------------
(* Properties *)

RequestsOf(l) == SelectSeq(l, LAMBDA e : e.ev = "request")
ResponsesOf(l) == SelectSeq(l, LAMBDA e : e.ev = "response")
WaitsOf(l) == SelectSeq(l, LAMBDA e : e.ev = "wait")
ArgsOf(l) == [ i \in 1..Len(l) |-> l[i].arg ]

\* The step just taken ended a loadFeed call, and so its fetchFeed call
Settled == lastOp.op = "settle"
LiveFailed == Settled /\ lastOp.live = "failed"
LiveOk == Settled /\ lastOp.live = "ok"

\* The step taken belongs to a failure: an attempt that does not return a payload, or a
\* continuation of a call whose last attempt failed
FailureStep ==
    \/ lastOp'.op = "attempt"
    \/ lastOp'.op \in { "throw", "fetchFeed", "settle" } /\ lastOp'.live = "failed"

\* The step just taken saved the payload of a successful attempt
Saved == lastOp.op = "save"

\* The result of a fetchFeed call whose attempt succeeded: the payload, stamped with a
\* time between the save and the end of the call
FreshResult ==
    \E t \in lastOp.savedAt..now :
        lastOp.result = FeedResult("returned", lastOp.payload, FALSE, DateOf(t), NoError)

\* The logs of the calls in progress and of the call that just ended
Logs == { log[w] : w \in Widgets } \cup { lastOp.log }

\* C1: when the live fetch fails and the cache load returns a CachedFeed, fetchFeed
\* returns the cached posts with fromCache = true, the cached timestamp and the
\* message of the live failure, and does not raise.
InvC1 ==
    LiveFailed /\ lastOp.cached.present =>
        lastOp.result = FeedResult("returned", lastOp.cached.data, TRUE,
                                   lastOp.cached.timestamp, lastOp.error)

\* A degraded result whose timestamp is the one stored at time 0, returned at time 1
WitC1 ==
    /\ LiveFailed
    /\ lastOp.result.fromCache
    /\ lastOp.result.data = ArrayBody(Feed(1))
    /\ lastOp.result.timestamp = DateOf(0)
    /\ lastOp.result.error = << "HTTP ", 503 >>
    /\ now = 1

\* C2: fetchFeed raises exactly when the live fetch failed and the cache load
\* returned absent, and the error raised is the failure of the live fetch.
InvC2 ==
    Settled =>
        /\ lastOp.result.status = "raised" <=>
               (lastOp.live = "failed" /\ ~lastOp.cached.present)
        /\ lastOp.result.status = "raised" =>
               (lastOp.result.error = lastOp.error /\ lastOp.error # NoError)

\* fetchFeed raised the 404 failure of the last attempt, the stored posts being unreadable
WitC2 ==
    /\ LiveFailed
    /\ lastOp.result.status = "raised"
    /\ lastOp.result.error = << "API error: ", 404 >>
    /\ storage.data = GarbageString

\* C3: when an attempt obtains an ok response with a parseable body, fetchFeed returns
\* that payload with fromCache = false whatever the cache holds, and does not read the cache.
InvC3 ==
    Settled /\ (\E i \in 1..Len(lastOp.log) : lastOp.log[i] = Event("response", 2)) =>
        /\ FreshResult
        /\ ~lastOp.cacheRead
        /\ \A i \in 1..Len(lastOp.log) : lastOp.log[i] # Event("cacheRead", 1)

\* A fresh result returned while the cache holds other posts (its write failed)
WitC3 ==
    /\ LiveOk
    /\ lastOp.save = "failData"
    /\ getFromCache(storage).present
    /\ getFromCache(storage).data # lastOp.result.data
    /\ ~lastOp.result.fromCache

\* C4: after an attempt receives a 4xx response the call issues no further request
\* and waits no backoff delay.
InvC4 ==
    \A l \in Logs : \A i \in 1..Len(l) : \A j \in 1..Len(l) :
        (i < j /\ l[i] = Event("response", 4)) => l[j].ev \notin { "request", "wait" }

\* C5: a call issues at most retries + 1 requests, each after the response to the one
\* before; when every attempt fails with a 5xx response, a network failure or a timeout
\* the call fails after exactly retries + 1 requests, and so does a call whose last
\* failure is a timeout.
InvC5 ==
    /\ \A l \in Logs :
        /\ Len(RequestsOf(l)) <= retries + 1
        /\ Len(RequestsOf(l)) - Len(ResponsesOf(l)) \in { 0, 1 }
        /\ \A i \in 1..Len(l) : \A j \in 1..Len(l) :
               (i < j /\ l[i].ev = "request" /\ l[j].ev = "request") =>
                   \E k \in (i + 1)..(j - 1) : l[k].ev = "response"
    /\ (LiveFailed /\ \A i \in 1..Len(lastOp.log) : lastOp.log[i] # Event("response", 4)) =>
           Len(RequestsOf(lastOp.log)) = retries + 1
    /\ (LiveFailed /\ lastOp.error = << "AbortError", 0 >>) =>
           Len(RequestsOf(lastOp.log)) = retries + 1

\* The default call fails on a timeout of its third request, after three transient failures
WitC5 ==
    /\ LiveFailed
    /\ retries = DefaultRetries
    /\ lastOp.error = << "AbortError", 0 >>
    /\ ArgsOf(ResponsesOf(lastOp.log)) = << 5, 5, 5 >>
    /\ Len(RequestsOf(lastOp.log)) = 3

\* C6: the first request follows no wait; the first retry follows a wait of 1000 ms and
\* the second a wait of 2000 ms; every wait is followed by a request, so none follows the
\* final failure; two transient failures and then a payload succeed on the third request
\* after waits of 1000 and 2000 ms.
InvC6 ==
    /\ \A l \in Logs : \A i \in 1..Len(l) :
        /\ (i = 1) => l[i] = Event("request", 0)
        /\ l[i] = Event("request", 0) => i = 1
        /\ l[i] = Event("request", 1) => (i > 1 /\ l[i - 1] = Event("wait", 1000))
        /\ l[i] = Event("request", 2) => (i > 1 /\ l[i - 1] = Event("wait", 2000))
    /\ \A i \in 1..Len(lastOp.log) :
        lastOp.log[i].ev = "wait" =>
            (i < Len(lastOp.log) /\ lastOp.log[i + 1].ev = "request")
    /\ (Settled /\ ArgsOf(ResponsesOf(lastOp.log)) = << 5, 5, 2 >>) =>
        /\ lastOp.live = "ok"
        /\ lastOp.result.status = "returned"
        /\ ArgsOf(WaitsOf(lastOp.log)) = << 1000, 2000 >>
        /\ ArgsOf(RequestsOf(lastOp.log)) = << 0, 1, 2 >>

\* Two transient failures and a payload: the call returned after waits of 1000 and 2000 ms
WitC6 ==
    /\ LiveOk
    /\ ArgsOf(ResponsesOf(lastOp.log)) = << 5, 5, 2 >>
    /\ ArgsOf(WaitsOf(lastOp.log)) = << 1000, 2000 >>
    /\ lastOp.result.data = ArrayBody(Feed(MaxPosts))

\* C7: a widget never has two loadFeed calls in flight; a loadFeed call or a visibility
\* signal arriving while isLoading is true changes nothing of the widget, its fetch or
\* the cache, and a fetch starts only in the step of a call that found isLoading false.
PropC7 ==
    /\ [](\A w \in Widgets : inflight[w] <= 1)
    /\ [][\A w \in Widgets :
            /\ (isLoading[w] /\ lastOp'.w = w /\ lastOp'.op \in { "loadFeed", "visible" }) =>
                   /\ lastOp'.outcome = "ignored"
                   /\ UNCHANGED << posts, currentPage, isLoading, fromCache, cacheTimestamp,
                                   dom, pc, attempt, inflight, log, storage >>
            /\ inflight'[w] > inflight[w] =>
                   /\ ~isLoading[w]
                   /\ lastOp'.w = w
                   /\ lastOp'.op \in { "loadFeed", "visible" }
                   /\ lastOp'.outcome = "started" ]_vars

\* A loadFeed call arrived during the backoff wait of the call in flight and was ignored
WitC7 ==
    /\ lastOp.op = "loadFeed"
    /\ lastOp.outcome = "ignored"
    /\ isLoading[lastOp.w]
    /\ pc[lastOp.w] = "backoff"
    /\ inflight[lastOp.w] = 1

\* C8 (as stated): whenever the cache is present its posts are the payload of the most
\* recent successful fetch, failed storage writes included.
PropC8Original ==
    /\ []((Saved \/ LiveOk) /\ getFromCache(storage).present =>
              getFromCache(storage).data = lastOp.payload)
    /\ [][storage'.data # storage.data => lastOp'.op = "save"]_vars

\* C8 (amended): the stored posts are the payload of the most recent successful fetch
\* whose write of the posts key succeeded; a fetch whose posts write fails leaves the
\* stored posts as they were.
PropC8 ==
    /\ []((Saved \/ LiveOk) /\ lastOp.save # "failData" =>
              storage.data = JsonStringify(lastOp.payload))
    /\ [][/\ storage'.data # storage.data =>
                (lastOp'.op = "save" /\ lastOp'.save # "failData")
          /\ (lastOp'.op = "save" /\ lastOp'.save = "failData") =>
                storage'.data = storage.data ]_vars

\* A successful fetch whose posts write failed: the cache still holds the older payload
WitC8 ==
    /\ LiveOk
    /\ lastOp.save = "failData"
    /\ lastOp.payload = ArrayBody(Feed(MaxPosts))
    /\ storage.data = JsonStringify(ArrayBody(Feed(1)))
    /\ getFromCache(storage).present

\* C9: the posts key and the timestamp key are always written by the same save call,
\* also when a save fails part-way.
InvC9 == cacheWriter.data = cacheWriter.time

\* C10: a failure of the cache write never reaches the caller: the fetch returns the fresh
\* payload and the widget ends rendered with the fresh posts, not from the cache.
InvC10 ==
    LiveOk /\ lastOp.save # "ok" =>
        /\ FreshResult
        /\ lastOp.outcome = "rendered"
        /\ posts[lastOp.w] = filterPosts(cfg[lastOp.w], lastOp.payload).posts
        /\ ~fromCache[lastOp.w]
        /\ dom[lastOp.w].kind = "content"
        /\ ~dom[lastOp.w].notice

\* C11: the cache load returns a CachedFeed exactly when both keys hold well-formed
\* values: posts that parse as JSON and a timestamp string that is a valid instant;
\* otherwise it returns absent.
InvC11 ==
    getFromCache(storage).present <=>
        /\ Truthy(storage.data) /\ JsonParses(storage.data)
        /\ Truthy(storage.time) /\ NewDate(storage.time).k = "date"

\* C12: a present cache stays present through every operation (load, refresh, goToPage,
\* destroy, failed fetch, failed write), and what the cache load returns changes only in
\* the step that saves after a successful fetch.
PropC12 ==
    [][/\ getFromCache(storage).present => getFromCache(storage').present
       /\ getFromCache(storage') # getFromCache(storage) =>
              (lastOp'.op = "save" /\ lastOp'.save # "failData")
      ]_vars

\* A fetch failed after an earlier fetch had saved its payload: the saved cache is served
WitC12 ==
    /\ LiveFailed
    /\ cacheWriter.data = 1
    /\ lastOp.cached.present
    /\ getFromCache(storage) = lastOp.cached
    /\ lastOp.outcome = "degraded"

\* C13: a loadFeed call ends with the fallback message shown exactly when its fetchFeed
\* call raised (the live fetch failed and the cache load returned absent).
InvC13 ==
    Settled =>
        (dom[lastOp.w].kind = "error" <=> lastOp.result.status = "raised")

\* C14: a 2xx response whose body is an object with a data array ends the load rendered,
\* with posts equal to the filter applied to that array and fromCache = false, as for the
\* same array served bare.
InvC14 ==
    LiveOk /\ lastOp.payload.shape = "object" =>
        /\ lastOp.outcome = "rendered"
        /\ posts[lastOp.w] = filterPosts(cfg[lastOp.w], ArrayBody(lastOp.payload.items)).posts
        /\ ~fromCache[lastOp.w]
        /\ dom[lastOp.w].kind = "content"

\* Pages needed for n posts at k posts a page: ceil(n / k), for k > 0
PagesNeeded(n, k) == IF n = 0 \/ k <= 0 THEN 0 ELSE ((n - 1) \div k) + 1

\* C15: in every state, after any loads and goToPage calls, currentPage lies in
\* [1, max(1, ceil(posts.length / itemsPerPage))].
InvC15 ==
    \A w \in Widgets :
        /\ currentPage[w] >= 1
        /\ currentPage[w] = 1 \/
               currentPage[w] <= PagesNeeded(Len(posts[w]), cfg[w].itemsPerPage)

\* goToPage moved the widget to the last page of a feed of MaxPosts posts
WitC15 ==
    /\ lastOp.op = "goToPage"
    /\ lastOp.outcome = "moved"
    /\ currentPage[lastOp.w] = MaxPosts
    /\ Len(posts[lastOp.w]) = MaxPosts
    /\ cfg[lastOp.w].itemsPerPage = 1

\* C16: goToPage(target) with target < 1 or target > totalPages leaves currentPage, posts
\* and the rendered content as they are; otherwise it sets currentPage = target and renders
\* that page; with no posts every call is a no-op.
PropC16 ==
    [][\A w \in Widgets : \A target \in PageTargets :
          GoToPage(w, target) =>
              IF target < 1 \/ target > PagesNeeded(Len(posts[w]), cfg[w].itemsPerPage)
                 \/ Len(posts[w]) = 0
              THEN /\ UNCHANGED << currentPage, posts, dom, fromCache, cacheTimestamp >>
                   /\ lastOp'.outcome = "ignored"
              ELSE /\ currentPage'[w] = target
                   /\ posts' = posts
                   /\ dom'[w].kind = "content"
                   /\ ~dom'[w].spinner
                   /\ dom'[w].pagePosts =
                          << posts[w][(target - 1) * cfg[w].itemsPerPage + 1] >>
                          \o SubSeq(dom'[w].pagePosts, 2, Len(dom'[w].pagePosts))
      ]_vars

\* goToPage beyond the last page, called while a refresh shows its spinner: nothing changed
WitC16 ==
    /\ lastOp.op = "goToPage"
    /\ lastOp.outcome = "ignored"
    /\ Len(posts[lastOp.w]) = MaxFeed
    /\ currentPage[lastOp.w] = MaxFeed
    /\ cfg[lastOp.w].itemsPerPage = 1
    /\ dom[lastOp.w].spinner

\* The posts of pages 1..p of widget w, page after page
RECURSIVE PagesUpTo(_, _)
PagesUpTo(w, p) ==
    IF p = 0 THEN << >>
    ELSE PagesUpTo(w, p - 1)
         \o PagePosts(cfg[w], [ posts |-> posts[w], currentPage |-> p ])

\* C17: the rendered page is posts[(currentPage-1)*itemsPerPage : currentPage*itemsPerPage];
\* the pages 1..totalPages are non-empty, hold at most itemsPerPage posts and, put end to
\* end, give the posts again; pagination controls show exactly when totalPages > 1; with
\* itemsPerPage = 2 and five posts the pages are [1,2], [3,4], [5] and no page follows the third.
InvC17 ==
    \A w \in Widgets : dom[w].kind = "content" =>
        LET k == cfg[w].itemsPerPage
            n == Len(posts[w])
            first == (currentPage[w] - 1) * k
            size == IF n - first < k THEN n - first ELSE k
            tp == PagesNeeded(n, k)
        IN /\ dom[w].pagePosts = [ i \in 1..size |-> posts[w][first + i] ]
           /\ dom[w].pagination <=> tp > 1
           /\ \A p \in 1..tp :
                  LET page == PagePosts(cfg[w], [ posts |-> posts[w], currentPage |-> p ])
                  IN Len(page) >= 1 /\ Len(page) <= k
           /\ PagesUpTo(w, tp) = posts[w]
           /\ (k = 2 /\ posts[w] = Feed(5)) =>
                  /\ currentPage[w] \in 1..3
                  /\ currentPage[w] = 1 => dom[w].pagePosts = << Post(1), Post(2) >>
                  /\ currentPage[w] = 2 => dom[w].pagePosts = << Post(3), Post(4) >>
                  /\ currentPage[w] = 3 => dom[w].pagePosts = << Post(5) >>

\* Two posts a page, five posts: goToPage(4) on page 3 was ignored and page 3 shows the fifth
WitC17 ==
    /\ lastOp.op = "goToPage"
    /\ lastOp.outcome = "ignored"
    /\ cfg[lastOp.w].itemsPerPage = 2
    /\ posts[lastOp.w] = Feed(5)
    /\ currentPage[lastOp.w] = 3
    /\ dom[lastOp.w].pagePosts = << Post(5) >>
    /\ dom[lastOp.w].pagination

\* The keywords parsed from the option strings of the filter scenarios
KeywordsFireCyc == << << "f", "i", "r", "e" >>, << "c", "y", "c" >> >>
KeywordsBan == << << "b", "a", "n" >> >>
KeywordsGreek == << << "ο", "ς" >>, << "é", "σ", "é" >> >>
KeywordsCased == << << "ґ" >>, << "α", "΄", "ς" >> >>

\* The lowercased message of post p contains one of the keywords of the list ks
HasKeyword(p, ks) ==
    \E i \in 1..Len(ks) : Includes(ToLowerCase(MessageText(p)), ks[i])

NoDateBound(w) == cfg[w].startDate.k = "null" /\ cfg[w].endDate.k = "null"

\* C18: without date bounds, filterPosts keeps, in order, exactly the posts whose
\* lowercased message (empty when absent) contains a keyword; the keywords are the option
\* split on ';', trimmed, lowercased, empty ones dropped; no keyword left or no option
\* gives the posts themselves; a null or empty body gives no posts and no error.
InvC18 ==
    \A w \in Widgets :
        /\ cfg[w].filterKeywords.list \in
               { << >>, KeywordsFireCyc, KeywordsBan, KeywordsGreek, KeywordsCased }
        /\ (LiveOk /\ lastOp.w = w /\ NoDateBound(w)) =>
               LET P == lastOp.payload.items
                   K == cfg[w].filterKeywords.list
               IN /\ lastOp.outcome = "rendered"
                  /\ posts[w] = IF K = << >> THEN P
                                ELSE SelectSeq(P, LAMBDA p : HasKeyword(p, K))
                  /\ (K = KeywordsFireCyc /\ P = Feed(5)) => posts[w] = << P[1], P[2] >>
                  /\ (K = KeywordsBan /\ P = Feed(5)) => posts[w] = << P[1] >>
                  /\ (K = KeywordsGreek /\ P = InternationalFeed) =>
                         posts[w] = << P[1], P[2] >>
                  /\ (K = KeywordsCased /\ P = InternationalFeed) =>
                         posts[w] = << P[4], P[5] >>
                  /\ (K \in { KeywordsFireCyc, KeywordsBan } /\ P = InternationalFeed) =>
                         posts[w] = << >>
                  /\ lastOp.payload.shape = "none" => posts[w] = << >>

\* Keywords "ΟΣ;ÉΣÉ" kept, of the feed with letters outside ASCII, the post that ends in
\* a capital sigma and the post "ÉΣÉ", and not the post with the sigma inside the word
WitC18 ==
    /\ LiveOk
    /\ NoDateBound(lastOp.w)
    /\ cfg[lastOp.w].filterKeywords.list = KeywordsGreek
    /\ lastOp.payload.items = InternationalFeed
    /\ posts[lastOp.w] = << InternationalFeed[1], InternationalFeed[2] >>
    /\ ToLowerCase(InternationalFeed[3].message) = << "ο", "σ", "α" >>

\* C19: with a date bound configured, a post is kept exactly when its created_time parses
\* to an instant not before startDate and not after the end of endDate's day, and it has
\* a keyword when keywords are configured; a post whose created_time does not parse is dropped.
InvC19 ==
    \A w \in Widgets :
        (LiveOk /\ lastOp.w = w /\ ~NoDateBound(w) /\ lastOp.payload.shape = "array") =>
            LET K == cfg[w].filterKeywords.list
                InRange(p) ==
                    LET d == NewDate(p.created_time) IN
                    /\ d.k = "date"
                    /\ cfg[w].startDate.k = "date" => d.ms >= cfg[w].startDate.ms
                    /\ cfg[w].endDate.k = "date" =>
                           d.ms <= EndOfDay(cfg[w].endDate, cfg[w].tz).ms
            IN posts[w] = SelectSeq(lastOp.payload.items,
                                    LAMBDA p : InRange(p) /\ (K = << >> \/ HasKeyword(p, K)))

\* C20: once destroy() has emptied the container and detached the visibility trigger, no
\* step other than a new call by the page changes that: the trigger starts no load, and
\* the fetch that was in flight completes without rendering anything into the container.
PropC20 ==
    [][\A w \in Widgets :
          (/\ pc[w] # "absent"
           /\ dom[w] = EmptyDom
           /\ ~observing[w]
           /\ lastOp'.op \notin { "loadFeed", "goToPage" }) =>
              /\ dom'[w] = EmptyDom
              /\ ~observing'[w]
              /\ posts'[w] = posts[w]
      ]_vars

\* The step taken was the observer callback of w and it started a load
VisibleStarts(w) ==
    lastOp'.op = "visible" /\ lastOp'.w = w /\ lastOp'.outcome = "started"

\* C21: a constructed widget has issued no request; a request is first issued in the
\* step of a visibility signal or of a loadFeed call; a visibility signal that starts a
\* load starts exactly one and deregisters the trigger, which is never registered again,
\* so over the life of the widget the trigger starts at most one load.
PropC21 ==
    /\ \A w \in Widgets : inflight[w] = 0 /\ log[w] = << >> /\ pc[w] \in { "idle", "absent" }
    /\ [][\A w \in Widgets :
            /\ inflight'[w] > inflight[w] =>
                   (lastOp'.w = w /\ lastOp'.op \in { "visible", "loadFeed" })
            /\ VisibleStarts(w) =>
                   /\ observing[w] /\ ~observing'[w]
                   /\ inflight'[w] = inflight[w] + 1
                   /\ log'[w] = << Event("request", 0) >>
            /\ ~observing[w] => (~observing'[w] /\ ~VisibleStarts(w)) ]_vars

\* The visibility signal started the load of a widget that had issued no request before
WitC21 ==
    /\ lastOp.op = "visible"
    /\ lastOp.outcome = "started"
    /\ ~observing[lastOp.w]
    /\ inflight[lastOp.w] = 1
    /\ log[lastOp.w] = << Event("request", 0) >>
    /\ dom[lastOp.w] = SkeletonDom

\* The first page of the posts of widget w, for itemsPerPage > 0
FirstPage(w) ==
    LET k == cfg[w].itemsPerPage
        n == Len(posts[w])
    IN SubSeq(posts[w], 1, IF n < k THEN n ELSE k)

\* C22: a loadFeed call made while isLoading is false is accepted and issues a request at
\* once, whatever the widget shows and whether or not a cache is present; in every call a
\* request has been answered before the cache is read; the call then ends with the posts
\* the filter keeps of the result, page 1 current and that page rendered.
PropC22 ==
    /\ [](/\ \A l \in Logs : \A i \in 1..Len(l) :
               /\ i = 1 => l[i] = Event("request", 0)
               /\ l[i].ev = "cacheRead" => \E j \in 1..(i - 1) : l[j].ev = "response"
          /\ (Settled /\ lastOp.outcome \in { "rendered", "degraded" }) =>
               /\ posts[lastOp.w] = filterPosts(cfg[lastOp.w], lastOp.result.data).posts
               /\ currentPage[lastOp.w] = 1
               /\ dom[lastOp.w].kind = "content"
               /\ dom[lastOp.w].pagePosts = FirstPage(lastOp.w))
    /\ [][\A w \in Widgets :
            (~isLoading[w] /\ lastOp'.op = "loadFeed" /\ lastOp'.w = w) =>
                /\ lastOp'.outcome = "started"
                /\ isLoading'[w]
                /\ inflight'[w] = inflight[w] + 1
                /\ log'[w] = << Event("request", 0) >>
                /\ storage' = storage ]_vars

\* A refresh of a widget that shows posts, with a cache present, issued a request
WitC22 ==
    /\ lastOp.op = "loadFeed"
    /\ lastOp.outcome = "started"
    /\ dom[lastOp.w].kind = "content"
    /\ dom[lastOp.w].spinner
    /\ getFromCache(storage).present
    /\ log[lastOp.w] = << Event("request", 0) >>

\* C23: a load that ends rendered from a live response leaves fromCache false and no
\* notice; a load that ends rendered from the cache leaves fromCache true, cacheTimestamp
\* equal to the timestamp stored with the cache and the notice shown with it; whatever is
\* rendered later, by goToPage too, shows the notice exactly when fromCache is true.
InvC23 ==
    /\ \A w \in Widgets : dom[w].kind = "content" =>
           /\ dom[w].notice <=> fromCache[w]
           /\ dom[w].notice => dom[w].noticeTime = cacheTimestamp[w]
    /\ (LiveOk /\ lastOp.payload.shape = "array") =>
           /\ lastOp.outcome = "rendered"
           /\ ~fromCache[lastOp.w]
           /\ ~dom[lastOp.w].notice
    /\ (LiveFailed /\ lastOp.cached.present /\ lastOp.cached.data.shape = "array") =>
           /\ lastOp.outcome = "degraded"
           /\ fromCache[lastOp.w]
           /\ cacheTimestamp[lastOp.w] = NewDate(storage.time)
           /\ dom[lastOp.w].notice
           /\ dom[lastOp.w].noticeTime = NewDate(storage.time)

\* goToPage re-rendered, at time 1, a feed served from the cache saved at time 0
WitC23 ==
    /\ lastOp.op = "goToPage"
    /\ lastOp.outcome = "moved"
    /\ currentPage[lastOp.w] = 2
    /\ fromCache[lastOp.w]
    /\ dom[lastOp.w].notice
    /\ dom[lastOp.w].noticeTime = DateOf(0)
    /\ now = 1

\* C24: two widgets with different endpoints share the cache keys, and the last write
\* wins: a save whose posts write goes through leaves the cache holding exactly its
\* payload, the stored posts change in no other step and are always the whole payload of one
\* endpoint; a widget whose live fetch fails is handed the stored payload as it is when
\* fetchFeed reads it, whichever widget fetched it, and ends showing it from the cache.
PropC24 ==
    /\ []((Saved /\ lastOp.save # "failData") =>
              storage.data = JsonStringify(lastOp.payload))
    /\ [][storage'.data # storage.data =>
              (lastOp'.op = "save" /\ lastOp'.save # "failData")]_vars
    /\ [](Truthy(storage.data) =>
              \E w \in Widgets : storage.data = JsonStringify(ArrayBody(EndpointFeed(w))))
    /\ []((lastOp.op = "fetchFeed" /\ lastOp.live = "failed"
                                   /\ getFromCache(storage).present) =>
              /\ lastOp.result.status = "returned"
              /\ lastOp.result.fromCache
              /\ lastOp.result.data = JsonParse(storage.data))
    /\ []((LiveFailed /\ lastOp.cached.present) =>
              /\ lastOp.outcome = "degraded"
              /\ lastOp.result.data = lastOp.cached.data
              /\ fromCache[lastOp.w]
              /\ posts[lastOp.w] = filterPosts(cfg[lastOp.w], lastOp.cached.data).posts)

\* Both widgets fetched and saved, w2 last; the fetch of w1 then failed and w1 shows, from
\* the cache, the payload of the endpoint of w2
WitC24 ==
    /\ LiveFailed
    /\ lastOp.w = "w1"
    /\ lastOp.outcome = "degraded"
    /\ lastOp.result.data = ArrayBody(EndpointFeed("w2"))
    /\ storage.data = JsonStringify(ArrayBody(EndpointFeed("w2")))
    /\ posts["w1"] = EndpointFeed("w2")
    /\ posts["w2"] = EndpointFeed("w2")
    /\ ~fromCache["w2"]
    /\ cacheTimestamp["w1"] # NullDate
    /\ EndpointFeed("w1") # EndpointFeed("w2")

\* C25: after auto-initialization every element carrying data-securent-fb-widget and not
\* data-no-init has the widget init built stored on it, and for an element carrying both
\* init never builds a widget: it is never marked initialized and stores no widget.
InvC25 ==
    \A e \in Elements :
        /\ (lastOp.op = "init" /\ elements[e].marked /\ ~elements[e].noInit) =>
               (elements[e].initialized /\ getInstance(e) \in elements[e].widgets)
        /\ (elements[e].marked /\ elements[e].noInit) =>
               (~elements[e].initialized /\ getInstance(e) = "null")

\* C26: getInstance(element) returns a widget constructed on the element, whether by
\* init() or by create(), and null only when no widget was constructed on it.
InvC26 ==
    \A e \in Elements :
        IF elements[e].widgets = { }
        THEN getInstance(e) = "null"
        ELSE getInstance(e) \in elements[e].widgets

\* C27: every loadFeed call that ends with a post list, fresh or from the cache, leaves
\* currentPage = 1 whatever page was current before, also when the list is the same as
\* the one loaded before; no step replaces the post list and leaves another page current.
PropC27 ==
    /\ []((Settled /\ lastOp.outcome \in { "rendered", "degraded" }) =>
              currentPage[lastOp.w] = 1)
    /\ [][\A w \in Widgets : posts'[w] # posts[w] => currentPage'[w] = 1]_vars

WitC27 ==
    /\ Settled
    /\ lastOp.outcome = "degraded"
    /\ lastOp.pageBefore = 2
    /\ Len(posts[lastOp.w]) = MaxPosts
    /\ currentPage[lastOp.w] = 1

\* The class of the attempt that threw the error e: 4 a 4xx response, 5 any other failure
ErrorClass(e) == IF e[1] = "API error: " THEN 4 ELSE 5

\* C28: when every attempt of a call failed, the error raised is the failure of the last
\* attempt, and it is the error fetchFeed carries in a degraded result (and raises when
\* there is no cache).
InvC28 ==
    LiveFailed =>
        LET rs == ResponsesOf(lastOp.log) IN
        /\ Len(rs) = retries + 1
        /\ \A i \in 1..Len(rs) : rs[i].arg # 2
        /\ lastOp.error # NoError
        /\ ErrorClass(lastOp.error) = rs[Len(rs)].arg
        /\ lastOp.result.error = lastOp.error

\* A degraded result carrying the timeout of the last attempt, the first having got a 404
WitC28 ==
    /\ LiveFailed
    /\ lastOp.result.fromCache
    /\ Len(ResponsesOf(lastOp.log)) >= 2
    /\ ResponsesOf(lastOp.log)[1].arg = 4
    /\ lastOp.error = << "AbortError", 0 >>
    /\ lastOp.result.error = << "AbortError", 0 >>

\* The events of a log after its first response of class 2
AfterSuccess(l) ==
    LET i == CHOOSE i \in 1..Len(l) : l[i] = Event("response", 2) IN
    SubSeq(l, i + 1, Len(l))

\* C29: a call that returns has saved exactly once, right after the successful response,
\* the payload it returns, and made no attempt after it; a call that fails has not saved,
\* and no failed attempt and no failed call changes either cache key.
PropC29 ==
    /\ [](LiveOk =>
            /\ Len(SelectSeq(lastOp.log, LAMBDA e : e.ev = "save")) = 1
            /\ Len(SelectSeq(lastOp.log, LAMBDA e : e = Event("response", 2))) = 1
            /\ AfterSuccess(lastOp.log)[1].ev = "save"
            /\ RequestsOf(AfterSuccess(lastOp.log)) = << >>
            /\ lastOp.result.data = lastOp.payload
            /\ lastOp.save = "ok" =>
                   storage = [ data |-> JsonStringify(lastOp.payload),
                               time |-> ToISOString(lastOp.savedAt) ])
    /\ [](LiveFailed => SelectSeq(lastOp.log, LAMBDA e : e.ev = "save") = << >>)
    /\ [][FailureStep => (storage' = storage /\ cacheWriter' = cacheWriter)]_vars

\* A call that returned on its third attempt and replaced the posts stored before
WitC29 ==
    /\ LiveOk
    /\ lastOp.save = "ok"
    /\ Len(RequestsOf(lastOp.log)) = 3
    /\ lastOp.payload = ArrayBody(Feed(MaxPosts))
    /\ storage.data = JsonStringify(ArrayBody(Feed(MaxPosts)))

\* C30: no loadFeed call both writes the cache and reads it, whatever the endpoint
\* answered.
InvC30 ==
    Settled =>
        ~(/\ \E i \in 1..Len(lastOp.log) : lastOp.log[i].ev = "save"
          /\ \E i \in 1..Len(lastOp.log) : lastOp.log[i].ev = "cacheRead")

\* C31: isLoading is true exactly while a loadFeed call is under way and false after it
\* on every path, and a call that has completed leaves the widget showing content or the
\* fallback, never the skeleton or the spinner.
InvC31 ==
    /\ \A w \in Widgets : isLoading[w] <=>
           pc[w] \in { "fetch", "body", "backoff", "returned", "settling" }
    /\ Settled =>
           (dom[lastOp.w].kind \in { "content", "error" } /\ ~dom[lastOp.w].spinner)

\* C32: the cache holds the payload of a fetch as the endpoint sent it, never a filtered
\* list; a widget that shows a degraded result holds its own filter applied to the cached
\* payload and shows the first page of that.
InvC32 ==
    /\ getFromCache(storage).present => JsonParse(storage.data) = ArrayBody(ViewFeed)
    /\ ((Saved \/ LiveOk) /\ lastOp.save # "failData") =>
           storage.data = JsonStringify(lastOp.payload)
    /\ (Settled /\ lastOp.outcome = "degraded") =>
           /\ getFromCache(storage).present
           /\ posts[lastOp.w] = filterPosts(cfg[lastOp.w], JsonParse(storage.data)).posts
           /\ lastOp.cached.present => lastOp.cached.data = JsonParse(storage.data)
           /\ dom[lastOp.w].pagePosts = FirstPage(lastOp.w)

\* Both widgets show their own view of the same cached feed: two posts and one post of
\* the three stored
WitC32 ==
    /\ Settled
    /\ lastOp.outcome = "degraded"
    /\ fromCache["w1"] /\ fromCache["w2"]
    /\ JsonParse(storage.data) = ArrayBody(ViewFeed)
    /\ { Len(posts["w1"]), Len(posts["w2"]) } = { 1, 2 }
    /\ \A w \in Widgets : posts[w] = filterPosts(cfg[w], ArrayBody(ViewFeed)).posts

\* C33: whatever value the itemsPerPage option had, the widget's itemsPerPage is greater
\* than 0, and the number of pages of its posts is never negative.
InvC33 ==
    \A w \in Widgets :
        /\ cfg[w].itemsPerPage > 0
        /\ TotalPages(cfg[w], posts[w]) >= 0

\* C34: an initialized element stores a widget constructed on it, and that widget is never
\* replaced; a call of init() constructs exactly one widget on each marked element not yet
\* initialized and none on any other element, and leaves every existing widget as it was.
PropC34 ==
    /\ [](\A e \in Elements :
              elements[e].initialized => getInstance(e) \in elements[e].widgets)
    /\ [][\A e \in Elements :
              elements[e].initialized =>
                  (elements'[e].initialized /\ getInstance(e)' = getInstance(e))]_vars
    /\ [][lastOp'.op = "init" =>
              /\ \A e \in Elements :
                     elements'[e].widgets \ elements[e].widgets =
                         IF elements[e].marked /\ ~elements[e].initialized
                         THEN { getInstance(e)' }
                         ELSE { }
              /\ \A w \in Widgets :
                     pc[w] # "absent" =>
                         /\ pc'[w] = pc[w]
                         /\ observing'[w] = observing[w]
                         /\ isLoading'[w] = isLoading[w]
                         /\ dom'[w] = dom[w]]_vars

\* init() was called again while the widget built by the first call is loading
WitC34 ==
    /\ lastOp.op = "init"
    /\ lastOp.outcome = "none"
    /\ \E e \in Elements :
           /\ elements[e].marked /\ elements[e].initialized
           /\ elements[e].widgets = { getInstance(e) }
           /\ pc[getInstance(e)] = "fetch"
           /\ isLoading[getInstance(e)] /\ ~observing[getInstance(e)]

\* The fields of widget w that a load replaces when it ends with a post list
Held(w) == << posts[w], currentPage[w], fromCache[w], cacheTimestamp[w] >>

\* C35: a load whose live fetch failed with no cache present shows the fallback and ends
\* with isLoading false, and neither its start nor its end changes the widget's posts,
\* currentPage, fromCache or cacheTimestamp.
PropC35 ==
    /\ []((LiveFailed /\ ~lastOp.cached.present) =>
              /\ lastOp.outcome = "errored"
              /\ dom[lastOp.w] = ErrorDom
              /\ ~isLoading[lastOp.w])
    /\ [][\A w \in Widgets :
              (/\ lastOp'.w = w
               /\ \/ lastOp'.op \in { "loadFeed", "visible", "attempt", "throw" }
                  \/ lastOp'.op = "fetchFeed" /\ lastOp'.live = "failed"
                  \/ lastOp'.op = "settle" /\ lastOp'.live = "failed"
                                           /\ ~lastOp'.cached.present)
              => Held(w)' = Held(w)]_vars

\* The fallback is shown while the widget still holds the posts of an earlier load, with
\* page 2 current
WitC35 ==
    /\ LiveFailed
    /\ ~lastOp.cached.present
    /\ dom[lastOp.w] = ErrorDom
    /\ Len(posts[lastOp.w]) = MaxPosts
    /\ currentPage[lastOp.w] = 2
    /\ ~fromCache[lastOp.w]
    /\ cacheTimestamp[lastOp.w] # NullDate

\* C36: on an endpoint whose only failure is a 200 response with a body that is not JSON,
\* such an attempt writes nothing to the cache and is never returned as a payload; it is
\* retried after the usual waits within retries + 1 requests; when it is the last attempt
\* the call fails with the parse error and fetchFeed answers from the cache, or raises
\* when there is none.
PropC36 ==
    /\ [](\A l \in Logs :
            /\ Len(RequestsOf(l)) <= retries + 1
            /\ \A i \in 1..Len(l) :
                /\ l[i] = Event("request", 1) => (i > 1 /\ l[i - 1] = Event("wait", 1000))
                /\ l[i] = Event("request", 2) => (i > 1 /\ l[i - 1] = Event("wait", 2000))
                /\ (l[i] = Event("response", 5) /\ i < Len(l)) =>
                       l[i + 1].ev \in { "wait", "request", "cacheRead" })
    /\ [](LiveOk => lastOp.payload = ArrayBody(Feed(MaxPosts)))
    /\ [](LiveFailed =>
            /\ lastOp.error = << "SyntaxError", 0 >>
            /\ Len(RequestsOf(lastOp.log)) = retries + 1
            /\ \A i \in 1..Len(lastOp.log) : lastOp.log[i].ev # "save"
            /\ lastOp.cacheRead
            /\ lastOp.cached = getFromCache(storage)
            /\ lastOp.result =
                   IF lastOp.cached.present
                   THEN FeedResult("returned", lastOp.cached.data, TRUE,
                                   lastOp.cached.timestamp, lastOp.error)
                   ELSE FeedResult("raised", NoBody, FALSE, NullDate, lastOp.error))
    /\ [][FailureStep => (storage' = storage /\ cacheWriter' = cacheWriter)]_vars

\* Three unparseable bodies in a row: the default call failed after waits of 1000 and
\* 2000 ms and fetchFeed answered with the feed stored before
WitC36 ==
    /\ LiveFailed
    /\ retries = DefaultRetries
    /\ lastOp.error = << "SyntaxError", 0 >>
    /\ ArgsOf(WaitsOf(lastOp.log)) = << 1000, 2000 >>
    /\ ArgsOf(RequestsOf(lastOp.log)) = << 0, 1, 2 >>
    /\ lastOp.result.fromCache
    /\ lastOp.result.data = ArrayBody(Feed(1))
    /\ storage.data = JsonStringify(ArrayBody(Feed(1)))

====
